---- MODULE Spec2Model ----
(***************************************************************************)
(* RelayDNS: a forwarding DNS proxy.  The model follows src/Server.cpp:    *)
(* the Inbox thread queues client datagrams, the Process thread rewrites   *)
(* the packet ID and forwards them, the Outbox thread matches replies of   *)
(* the forward DNS server by ID and answers the client, the Maintainence   *)
(* thread actively times out Requests.                                     *)
(*                                                                         *)
(* Time is counted in milliseconds.  A datagram is a record                *)
(*   [b0, b1, resp, len, wf, body]                                         *)
(* b0, b1 = bytes 0 and 1 (the ID), resp = the QR bit of the header, len = *)
(* the datagram length, wf = the question section decodes, body = bytes    *)
(* 2..N.                                                                   *)
(***************************************************************************)
EXTENDS Integers, Sequences, FiniteSets, TLC

(***************************************************************************)
(* Program constants                                                       *)
(***************************************************************************)
SERVER_BUFFER_SIZE == 4096
SERVER_MAX_PACKET_SIZE == 512
SERVER_TIMEOUT_MS == 2000
SERVER_TIMEOUT_SCAN_MS == 1000
USHRT_MAX == 65535
\* unsigned short arithmetic is modulo 2^16
UShortModulus == 65536
\* sizeof(DNS_HEADER)
HeaderSize == 12

(***************************************************************************)
(* Bounds of the exploration                                               *)
(***************************************************************************)
\* The pipeline is explored with the ID space scaled down: IdLimit stands
\* where the code has USHRT_MAX (the wrap value of the ID counter and the
\* size of mOutboxArray).  The allocator alone (SpecGen) runs at full width.
IdLimit == 2
\* Datagrams the Inbox thread accepts in one behaviour
MaxRequests == 2
\* The clock advances ClockStep ms at a time, MaxTicks times
ClockStep == 1000
MaxTicks == 3
\* Threads calling GenerateUniqueID concurrently in SpecGen
NumCallers == 2
\* SpecInbox: RunServer's scaleCount, the number of Inbox threads and of
\* Process threads, and the datagrams received
ScaleCount == 2
MaxPushes == 3
\* The largest value the named semaphore is found with when it is opened
MaxLeftOver == 1
\* SpecPacket: the bytes of a datagram after its header
MaxNameBytes == 9
\* SpecPacket: the sections of a name given to EncodeAddrStr, and the size
\* of the buffer it writes to
MaxSections == 2
MaxRoom == 8
\* SpecOutbox explores the Outbox with more IDs in play: OutboxIdLimit
\* stands where the code has USHRT_MAX, MaxInserts Requests are inserted
OutboxIdLimit == 3
MaxInserts == 3

VARIABLES
    now,                  \* chrono::high_resolution_clock::now(), in ms
    mShuttingDown,
    mStatsRequests, mStatsServed, mStatsTimeOuts,
    mGenIDCounter, mGenIDMutex,
    mInboxQueue, mInboxQueueSemaphore,
    mOutboxArray,         \* occupied slots only: id -> Request
    mOutboxQueue,
    processPC,            \* position of the Process thread
    reqPtr,               \* HandleRequest's raw pointer, kept after the move
    sleepUntil,           \* end of the Maintainence thread's sleep_for
    nextUid,              \* history: Requests constructed so far
    fwdSent,              \* history: datagrams sent on the forward socket
    lastOutbox,           \* history: what the Outbox thread did last
    lastSweep,            \* history: what OutboxTimeout removed last
    genPC, genIdOut, genLast, \* callers of GenerateUniqueID (SpecGen)
    evicted,              \* SpecOutbox, history: Requests that OutboxAdd's
                          \* assignment to an occupied slot destroyed
    unsweptArray,         \* SpecOutbox: mOutboxArray of a server that gets the
                          \* same input and never runs OutboxTimeout
    lastTake,             \* SpecOutbox, history: the last lookup by ID
    mainPC,               \* SpecShutdown: position of RunServer
    target,               \* SpecShutdown: index of the thread being shut down
    handlers,             \* SpecShutdown: disposition of the four signals
    worker,               \* SpecShutdown: position of each ThreadMain
    cancelPending,        \* SpecShutdown: threads with a pending pthread_cancel
    cancelState,          \* SpecShutdown: pthread_setcancelstate of each thread
    statsPrinted,         \* SpecShutdown: the "Statistics:" lines printed
    signals,              \* SpecShutdown, history: signals delivered so far
    deliveredWaiting,     \* SpecShutdown, history: a signal came during the wait
    handledWaiting,       \* SpecShutdown, history: ... and HandleSignal ran
    inboxPC,              \* SpecInbox: position of each Inbox thread
    procPC,               \* SpecInbox: position of each Process thread
    popped,               \* SpecInbox, history: Requests popped, in order
    poppedEmpty,          \* SpecInbox, history: front() of an empty queue
    outboxPC,             \* SpecEgress: position of each Outbox thread
    outboxReq,            \* SpecEgress: what OutboxRemove returned to each
    sentToClient,         \* SpecEgress, history: datagrams sent to the client
                          \* of each Request
    codecPC,              \* SpecPacket: what was done with the DNSPacket
    mRawPacketData,       \* SpecPacket: the bytes of the DNSPacket
    codec                 \* SpecPacket, history: the last call and its result

inboxVars == <<inboxPC, procPC, popped, poppedEmpty>>

egressVars == <<outboxPC, outboxReq, sentToClient>>

packetVars == <<codecPC, mRawPacketData, codec>>

shutdownVars == <<mainPC, target, handlers, worker, cancelPending,
                  cancelState, statsPrinted, signals, deliveredWaiting, handledWaiting>>

vars == <<now, mShuttingDown, mStatsRequests, mStatsServed, mStatsTimeOuts,
          mGenIDCounter, mGenIDMutex, mInboxQueue, mInboxQueueSemaphore,
          mOutboxArray, mOutboxQueue, processPC, reqPtr, sleepUntil,
          nextUid, fwdSent, lastOutbox, lastSweep, genPC, genIdOut, genLast,
          evicted, unsweptArray, lastTake, shutdownVars, inboxVars, egressVars, packetVars>>

pipelineVars == <<now, mShuttingDown, mStatsRequests, mStatsServed,
                  mStatsTimeOuts, mInboxQueue, mInboxQueueSemaphore,
                  mOutboxArray, mOutboxQueue, processPC, reqPtr, sleepUntil,
                  nextUid, fwdSent, lastOutbox, lastSweep, evicted,
                  unsweptArray, lastTake, shutdownVars, inboxVars, egressVars, packetVars>>

genVars == <<genPC, genIdOut, genLast, mGenIDMutex>>

\* What no step of the Inbox, Process, Outbox and Maintainence threads of the
\* pipeline writes
otherVars == <<genPC, genIdOut, genLast, evicted, unsweptArray, lastTake,
               shutdownVars, inboxVars, egressVars, packetVars>>

(***************************************************************************)
(* Addresses and datagrams                                                 *)
(***************************************************************************)
\* mFwdSocketAddr: the configured forward DNS server
FwdSocketAddr == [addr |-> "8.8.8.8", port |-> 53]

OtherSources == {[addr |-> "8.8.8.8", port |-> 5353],
                 [addr |-> "1.2.3.4", port |-> 53]}

Clients == {"c1", "c2"}

Query(id, name, len) ==
    [b0 |-> id \div 256, b1 |-> id % 256, resp |-> FALSE, len |-> len,
     wf |-> TRUE, body |-> <<"Q", name>>]

\* What a client may send to the listen port
ClientDatagrams ==
    {[from |-> "c1", pkt |-> Query(43981, "example.com", 29)],
     [from |-> "c2", pkt |-> Query(1, "b.org", 512)],
     [from |-> "c1", pkt |-> Query(43981, "example.com", 600)],
     [from |-> "c2", pkt |-> [Query(7, "short", 5) EXCEPT !.wf = FALSE]],
     [from |-> "c2", pkt |-> [Query(2, "b.org", 45) EXCEPT !.resp = TRUE]]}

\* What freed memory may hold when it is read
Garbage ==
    [b0 |-> 0, b1 |-> 0, resp |-> FALSE, len |-> 0, wf |-> FALSE,
     body |-> <<"G", "">>]

(***************************************************************************)
(* Packet codec (src/Packet.cpp)                                           *)
(***************************************************************************)
\* Variant: no htons, the ID is stored low byte first
SetRawPacketIDNoSwap(pkt, inID) ==
    [pkt EXCEPT !.b0 = inID % 256, !.b1 = inID \div 256]

\* htons + memcpy: the ID is stored big-endian in bytes 0-1
SetRawPacketID(pkt, inID) ==
    [pkt EXCEPT !.b0 = inID \div 256, !.b1 = inID % 256]

\* memcpy + ntohs
GetRawPacketID(pkt) == pkt.b0 * 256 + pkt.b1

\* Variant: Decode reports success whatever the datagram holds
DecodeAlwaysOK(pkt) == 0

\* Return code of DNSPacket::Decode(): the header needs HeaderSize bytes,
\* then the question name and the question must decode
Decode(pkt) == IF pkt.len < HeaderSize \/ ~pkt.wf THEN -1 ELSE 0

\* sizeof(DNS_QUESTION): qtype and qclass
QuestionSize == 4

\* '.' in a question name
Period == 46

\* The return of DecodeAddrStr: the return code, what is left of the buffer
\* (ioData, ioDataLen) and outString
AddrStr(rc, data, outString) ==
    [rc |-> rc, data |-> data, outString |-> outString]

\* Variant: no period is added between the sections
AddPeriodNever(outString, sectionLen) == outString

\* "Add period if we'll be appending more"
AddPeriod(outString, sectionLen) ==
    IF sectionLen # 0 THEN Append(outString, Period) ELSE outString

\* DecodeAddrStr, the while loop: data is the buffer from ioData on
RECURSIVE DecodeSections(_, _, _)
DecodeSections(data, sectionLen, outString) ==
    IF sectionLen = 0
    THEN AddrStr(0, data, outString)
    ELSE IF Len(data) < sectionLen
    THEN AddrStr(-1, data, outString)
    ELSE LET appended == outString \o SubSeq(data, 1, sectionLen)
             rest == SubSeq(data, sectionLen + 1, Len(data))
         IN IF Len(rest) < 1
            THEN AddrStr(-1, rest, appended)
            ELSE DecodeSections(Tail(rest), rest[1],
                                AddPeriod(appended, rest[1]))

\* DNSPacket::DecodeAddrStr
DecodeAddrStr(data) ==
    IF Len(data) < 1
    THEN AddrStr(-1, data, <<>>)
    ELSE DecodeSections(Tail(data), data[1], <<>>)

\* DNSPacket::Decode on the bytes of a datagram: the return code and
\* mQuestionName, which keeps what it was (here: empty) when the header is
\* short
DecodeRaw(data) ==
    IF Len(data) < HeaderSize
    THEN [rc |-> -1, mQuestionName |-> <<>>]
    ELSE LET name == DecodeAddrStr(SubSeq(data, HeaderSize + 1, Len(data))) IN
         IF name.rc # 0
         THEN [rc |-> -1, mQuestionName |-> name.outString]
         ELSE IF Len(name.data) < QuestionSize
         THEN [rc |-> -1, mQuestionName |-> name.outString]
         ELSE [rc |-> 0, mQuestionName |-> name.outString]

\* inString.find('.', sectionStart): the index of the first period from
\* sectionStart on (indices from 1), or 0 for string::npos
RECURSIVE Find(_, _)
Find(inString, from) ==
    IF from > Len(inString) THEN 0
    ELSE IF inString[from] = Period THEN from
    ELSE Find(inString, from + 1)

\* The buffer after *ioData = byte or memcpy(ioData, bytes, Len(bytes)),
\* ioData being the index at
Write(buffer, at, bytes) ==
    [i \in DOMAIN buffer |->
        IF i >= at /\ i < at + Len(bytes) THEN bytes[i - at + 1] ELSE buffer[i]]

\* "Copy section": memcpy(ioData, ..., sectionLen), ioDataLen += sectionLen,
\* ioRemainsLen -= sectionLen; ioData itself is left where it is
AfterCopy(ioData, sectionLen) == ioData

\* The return of EncodeAddrStr: the return code, the buffer and the three
\* in/out arguments
Encoded(rc, buffer, ioData, ioDataLen, ioRemainsLen) ==
    [rc |-> rc, buffer |-> buffer, ioData |-> ioData, ioDataLen |-> ioDataLen,
     ioRemainsLen |-> ioRemainsLen]

\* DNSPacket::EncodeAddrStr from sectionStart on: the while loop over the
\* sections that end in a period, then "Last section"
RECURSIVE EncodeSections(_, _, _, _, _, _)
EncodeSections(buffer, ioData, ioDataLen, ioRemainsLen, inString, sectionStart) ==
    LET sectionEnd == Find(inString, sectionStart) IN
    IF sectionEnd # 0
    THEN LET sectionLen == sectionEnd - sectionStart
             section == SubSeq(inString, sectionStart, sectionEnd - 1)
         IN IF ioRemainsLen < 1 + sectionLen
            THEN Encoded(-1, buffer, ioData, ioDataLen, ioRemainsLen)
            ELSE EncodeSections(
                     Write(Write(buffer, ioData, <<sectionLen>>),
                           ioData + 1, section),
                     AfterCopy(ioData + 1, sectionLen),
                     ioDataLen + 1 + sectionLen,
                     ioRemainsLen - 1 - sectionLen,
                     inString, sectionEnd + 1)
    ELSE LET sectionLen == Len(inString) - sectionStart + 1
             section == SubSeq(inString, sectionStart, Len(inString))
         IN IF ioRemainsLen < 2 + sectionLen
            THEN Encoded(-1, buffer, ioData, ioDataLen, ioRemainsLen)
            ELSE LET copied == Write(Write(buffer, ioData, <<sectionLen>>),
                                     ioData + 1, section)
                     last == AfterCopy(ioData + 1, sectionLen)
                 IN Encoded(0, Write(copied, last, <<0>>), last + 1,
                            ioDataLen + 2 + sectionLen,
                            ioRemainsLen - 2 - sectionLen)

\* DNSPacket::EncodeAddrStr(ioData, ioDataLen, ioRemainsLen, inString) with
\* ioData at the start of the buffer and ioDataLen 0
EncodeAddrStr(buffer, ioRemainsLen, inString) ==
    EncodeSections(buffer, 1, 0, ioRemainsLen, inString, 1)

(***************************************************************************)
(* ID generator (Server::GenerateUniqueID)                                 *)
(***************************************************************************)
\* ++mGenIDCounter on an unsigned short
PreIncrement(counter) == (counter + 1) % UShortModulus

\* Variant: the counter is reset to 0, the start value, instead of 1
WrapResetToZero(counter, max) == IF counter = max THEN 0 ELSE counter

\* if (counter == USHRT_MAX) counter = 1
WrapReset(counter, max) == IF counter = max THEN 1 ELSE counter

\* Variant: post-increment, "if (mGenIDCounter++ == USHRT_MAX)"
GenerateUniqueIDPostIncrement(counter, max) ==
    IF counter = max THEN 1 ELSE PreIncrement(counter)

\* Variant: the counter is not advanced once it has left its start value
GenerateUniqueIDStuck(counter, max) == IF counter = 0 THEN 1 ELSE counter

\* The whole call, under mGenIDMutex: the new counter is the ID returned
GenerateUniqueID(counter, max) == WrapReset(PreIncrement(counter), max)

(***************************************************************************)
(* Outbox (Server::OutboxAdd, OutboxRemove, OutboxTimeout)                 *)
(***************************************************************************)
Occupied(array, id) == id \in DOMAIN array

\* Variant: every Request is stored in the first slot
StoreAtFirst(array, id, req) ==
    [i \in DOMAIN array \cup {1} |-> IF i = 1 THEN req ELSE array[i]]

Store(array, id, req) ==
    [i \in DOMAIN array \cup {id} |-> IF i = id THEN req ELSE array[i]]

Release(array, id) == [i \in DOMAIN array \ {id} |-> array[i]]

\* Variant: duration_cast<seconds>, compared against a limit in ms
ElapsedSeconds(from, to) == (to - from) \div 1000

\* duration_cast<milliseconds>(to - from).count(); the clock counts ms
ElapsedMS(from, to) == to - from

\* Variant: the ID is not pushed on the queue
OutboxAddUnqueued(array, queue, req, rightNow) ==
    [array |-> Store(array, req.mOurPacketID,
                     [req EXCEPT !.mForwardedTime = rightNow]),
     queue |-> queue]

\* Variant: mForwardedTime is not set
OutboxAddUnstamped(array, queue, req, rightNow) ==
    [array |-> Store(array, req.mOurPacketID, req),
     queue |-> Append(queue, req.mOurPacketID)]

\* OutboxAdd: stamp, push the ID on the queue, move the Request into its
\* slot (the unique_ptr assignment destroys a Request already there)
OutboxAdd(array, queue, req, rightNow) ==
    LET stamped == [req EXCEPT !.mForwardedTime = rightNow] IN
    [array |-> Store(array, req.mOurPacketID, stamped),
     queue |-> Append(queue, req.mOurPacketID)]

\* Variant: the Request is handed out and stays in its slot
OutboxRemoveKeep(array, inID) == array

\* OutboxRemove: the slot is emptied; the queue is not touched
OutboxRemove(array, inID) == Release(array, inID)

\* Variant: the scan interval used as the limit
NotTimedOutScan(elapsedMS) == elapsedMS < SERVER_TIMEOUT_SCAN_MS

\* Variant: the loop never breaks, every Request it comes to is removed
NotTimedOutNever(elapsedMS) == FALSE

\* OutboxTimeout: "if (elapsedMS < SERVER_TIMEOUT_MS) break"
NotTimedOut(elapsedMS) == elapsedMS < SERVER_TIMEOUT_MS

RECURSIVE OutboxTimeoutLoop(_, _, _, _)
OutboxTimeoutLoop(array, queue, timeOuts, rightNow) ==
    IF queue = <<>>
    THEN [array |-> array, queue |-> queue, timeOuts |-> timeOuts]
    ELSE LET oldestReqID == Head(queue) IN
         IF ~Occupied(array, oldestReqID)
         THEN OutboxTimeoutLoop(array, Tail(queue), timeOuts, rightNow)
         ELSE IF NotTimedOut(ElapsedMS(array[oldestReqID].mForwardedTime, rightNow))
              THEN [array |-> array, queue |-> queue, timeOuts |-> timeOuts]
              ELSE OutboxTimeoutLoop(Release(array, oldestReqID), Tail(queue),
                                     timeOuts + 1, rightNow)

\* Variant: ">" for ">="
PassiveTimeoutStrict(elapsedMS) == elapsedMS > SERVER_TIMEOUT_MS

\* HandlePacket (Outbox thread): "if (elapsedMS >= SERVER_TIMEOUT_MS)"
PassiveTimeout(elapsedMS) == elapsedMS >= SERVER_TIMEOUT_MS

\* Variant: "&&" for "||"
UnexpectedSourceBoth(fwdAddress, inFrom) ==
    fwdAddress.addr # inFrom.addr /\ fwdAddress.port # inFrom.port

\* HandlePacket (Outbox thread): the security check
UnexpectedSource(fwdAddress, inFrom) ==
    fwdAddress.addr # inFrom.addr \/ fwdAddress.port # inFrom.port

\* Variant: only what does not fit the receive buffer is too large
TooLargeForBuffer(inLen) == inLen > SERVER_BUFFER_SIZE

\* Both HandlePackets: "if (inLen > SERVER_MAX_PACKET_SIZE)"
TooLarge(inLen) == inLen > SERVER_MAX_PACKET_SIZE

(***************************************************************************)
(* Initial state: after Server::Server() and the thread start of           *)
(* RunServer().  The constructor sets mGenIDCounter(0) but initializes     *)
(* neither the statistics counters nor mShuttingDown, so they start with   *)
(* whatever the memory holds.                                              *)
(***************************************************************************)
StatsStart ==
    {[requests |-> 0, served |-> 0, timeOuts |-> 0],
     [requests |-> 3, served |-> 8, timeOuts |-> 1]}

Callers == 1..NumCallers

NoOwner == 0

\* sem_open with O_CREAT and without O_EXCL opens the semaphore of that name
\* if there is one and ignores the value 0 then; the semaphore is never
\* unlinked, so it keeps the count an earlier run of the server left, and
\* two servers running at once share it
SemaphoreStart == 0..MaxLeftOver

\* The Inbox threads and the Process threads of SpecInbox
Threads == 1..ScaleCount

\* The threads RunServer starts (scaleCount = 1: one of each)
Workers == {"inbox", "process", "outbox", "maintainence"}

InitMembers ==
    /\ now = 0
    /\ mShuttingDown \in BOOLEAN
    /\ \E st \in StatsStart :
          /\ mStatsRequests = st.requests
          /\ mStatsServed = st.served
          /\ mStatsTimeOuts = st.timeOuts
    /\ mGenIDCounter = 0
    /\ mGenIDMutex = NoOwner
    /\ mInboxQueue = <<>>
    /\ mOutboxArray = <<>>
    /\ mOutboxQueue = <<>>
    /\ processPC = "wait"
    /\ reqPtr = <<>>
    /\ sleepUntil = SERVER_TIMEOUT_SCAN_MS
    /\ nextUid = 1
    /\ fwdSent = {}
    /\ lastOutbox = <<>>
    /\ lastSweep = <<>>
    /\ genPC = [p \in Callers |-> "idle"]
    /\ genIdOut = [p \in Callers |-> 0]
    /\ genLast = 0
    /\ evicted = {}
    /\ unsweptArray = <<>>
    /\ lastTake = <<>>
    /\ mainPC = "start"
    /\ target = 1
    /\ handlers = "HandleSignal"
    /\ worker = [w \in Workers |-> "loop"]
    /\ cancelPending = {}
    /\ cancelState = [w \in Workers |-> "enable"]
    /\ statsPrinted = <<>>
    /\ signals = 0
    /\ deliveredWaiting = FALSE
    /\ handledWaiting = FALSE
    /\ inboxPC = [t \in Threads |-> "recv"]
    /\ procPC = [t \in Threads |-> "wait"]
    /\ popped = <<>>
    /\ poppedEmpty = FALSE
    /\ outboxPC = [t \in Threads |-> "recv"]
    /\ outboxReq = [t \in Threads |-> <<>>]
    /\ sentToClient = [uid \in 0..MaxInserts |-> 0]
    /\ codecPC = "new"
    /\ mRawPacketData = <<>>
    /\ codec = <<>>

\* sem_open("mInboxQueueSemaphore", O_CREAT, 0666, 0) with no semaphore of
\* that name in the system: it is created with the value 0
Init ==
    /\ InitMembers
    /\ mInboxQueueSemaphore = 0

(***************************************************************************)
(* The clock                                                               *)
(***************************************************************************)
Tick ==
    /\ now < MaxTicks * ClockStep
    /\ now' = now + ClockStep
    /\ UNCHANGED <<mShuttingDown, mStatsRequests, mStatsServed, mStatsTimeOuts,
                   mGenIDCounter, mGenIDMutex, mInboxQueue, mInboxQueueSemaphore,
                   mOutboxArray, mOutboxQueue, processPC, reqPtr, sleepUntil,
                   nextUid, fwdSent, lastOutbox, lastSweep, otherVars>>

(***************************************************************************)
(* Inbox thread: ServerThreadInbox::ThreadMain / HandlePacket              *)
(***************************************************************************)
\* Request() followed by SetRawData and the copy of the client address
NewRequest(uid, d, t) ==
    [uid |-> uid, mClientAddr |-> d.from, mPacket |-> d.pkt,
     mClientPacketID |-> 0, mOurPacketID |-> 0, mForwardedTime |-> 0,
     acceptedAt |-> t, query |-> d.pkt, sender |-> d.from]

\* InboxQueuePushBack: push under the lock, then sem_post
InboxQueuePushBack(queue, sem, req) ==
    [queue |-> Append(queue, req), sem |-> sem + 1]

InboxHandlePacket(d) ==
    /\ ~mShuttingDown
    /\ nextUid <= MaxRequests
    /\ IF TooLarge(d.pkt.len)
       THEN UNCHANGED <<mInboxQueue, mInboxQueueSemaphore, nextUid>>
       ELSE LET pushed == InboxQueuePushBack(mInboxQueue, mInboxQueueSemaphore,
                                             NewRequest(nextUid, d, now)) IN
            /\ mInboxQueue' = pushed.queue
            /\ mInboxQueueSemaphore' = pushed.sem
            /\ nextUid' = nextUid + 1
    /\ UNCHANGED <<now, mShuttingDown, mStatsRequests, mStatsServed,
                   mStatsTimeOuts, mGenIDCounter, mGenIDMutex, mOutboxArray,
                   mOutboxQueue, processPC, reqPtr, sleepUntil, fwdSent,
                   lastOutbox, lastSweep, otherVars>>

(***************************************************************************)
(* Process thread: ServerThreadProcess::ThreadMain / HandleRequest         *)
(***************************************************************************)
\* InboxQueueWaitForData: sem_wait
ProcessWait ==
    /\ ~mShuttingDown
    /\ processPC = "wait"
    /\ mInboxQueueSemaphore > 0
    /\ mInboxQueueSemaphore' = mInboxQueueSemaphore - 1
    /\ processPC' = "pop"
    /\ UNCHANGED <<now, mShuttingDown, mStatsRequests, mStatsServed,
                   mStatsTimeOuts, mGenIDCounter, mGenIDMutex, mInboxQueue,
                   mOutboxArray, mOutboxQueue, reqPtr, sleepUntil, nextUid,
                   fwdSent, lastOutbox, lastSweep, otherVars>>

\* Variant: the client's ID is read after our ID was written
ReplacePacketIDWriteFirst(req, ourPacketId) ==
    LET written == SetRawPacketID(req.mPacket, ourPacketId) IN
    [req EXCEPT !.mPacket = written,
                !.mClientPacketID = GetRawPacketID(written),
                !.mOurPacketID = ourPacketId]

\* HandleRequest, "Replace packet id with our own": the client's ID is read
\* from the raw data before our ID is written over it
ReplacePacketID(req, ourPacketId) ==
    LET clientPacketId == GetRawPacketID(req.mPacket) IN
    [req EXCEPT !.mPacket = SetRawPacketID(req.mPacket, ourPacketId),
                !.mClientPacketID = clientPacketId,
                !.mOurPacketID = ourPacketId]

\* InboxQueuePopFront, then HandleRequest up to and including OutboxAdd
ProcessHandleRequest ==
    /\ processPC = "pop"
    /\ mInboxQueue # <<>>
    /\ LET inReq == Head(mInboxQueue) IN
       /\ mInboxQueue' = Tail(mInboxQueue)
       /\ IF Decode(inReq.mPacket) # 0 \/ inReq.mPacket.resp
          THEN /\ processPC' = "wait"
               /\ UNCHANGED <<mStatsRequests, mGenIDCounter, mOutboxArray,
                              mOutboxQueue, reqPtr>>
          ELSE LET ourPacketId == GenerateUniqueID(mGenIDCounter, IdLimit)
                   rewritten == ReplacePacketID(inReq, ourPacketId)
                   added == OutboxAdd(mOutboxArray, mOutboxQueue, rewritten, now)
               IN /\ mStatsRequests' = mStatsRequests + 1
                  /\ mGenIDCounter' = ourPacketId
                  /\ mOutboxArray' = added.array
                  /\ mOutboxQueue' = added.queue
                  /\ reqPtr' = <<added.array[ourPacketId]>>
                  /\ processPC' = "send"
    /\ UNCHANGED <<now, mShuttingDown, mStatsServed, mStatsTimeOuts,
                   mGenIDMutex, mInboxQueueSemaphore, sleepUntil, nextUid,
                   fwdSent, lastOutbox, lastSweep, otherVars>>

\* What "reqPtr->mPacket" yields after OutboxAdd(move(inReq)): the Request
\* belongs to the Outbox now; once the Outbox thread, the Maintainence
\* thread or a later OutboxAdd has destroyed it the read is of freed memory
ReadReqPtr(array, ptr) ==
    IF /\ Occupied(array, ptr.mOurPacketID)
       /\ array[ptr.mOurPacketID].uid = ptr.uid
    THEN {array[ptr.mOurPacketID].mPacket}
    ELSE {ptr.mPacket, Garbage}

\* HandleRequest, "Forward to DNS server": sendto on the forward socket
ProcessSend ==
    /\ processPC = "send"
    /\ \E buffer \in ReadReqPtr(mOutboxArray, reqPtr[1]), sent \in BOOLEAN :
          fwdSent' = IF sent
                     THEN fwdSent \cup {[uid |-> reqPtr[1].uid, pkt |-> buffer,
                                          query |-> reqPtr[1].query]}
                     ELSE fwdSent
    /\ reqPtr' = <<>>
    /\ processPC' = "wait"
    /\ UNCHANGED <<now, mShuttingDown, mStatsRequests, mStatsServed,
                   mStatsTimeOuts, mGenIDCounter, mGenIDMutex, mInboxQueue,
                   mInboxQueueSemaphore, mOutboxArray, mOutboxQueue,
                   sleepUntil, nextUid, lastOutbox, lastSweep, otherVars>>

(***************************************************************************)
(* The forward DNS server and other senders to the forward socket          *)
(***************************************************************************)
Min(a, b) == IF a < b THEN a ELSE b

\* The server answers a well-formed question it was sent: same ID, QR set,
\* the answer appended.  The reply may come at any time, any number of times.
Answerable(f) == Decode(f.pkt) = 0 /\ ~f.pkt.resp

ReplyTo(f) ==
    [f.pkt EXCEPT !.resp = TRUE,
                  !.len = Min(f.pkt.len + 16, SERVER_MAX_PACKET_SIZE),
                  !.body = <<"A", f.pkt.body[2]>>]

FwdDatagrams ==
    {[src |-> FwdSocketAddr, pkt |-> ReplyTo(f), answers |-> f.uid] :
        f \in {g \in fwdSent : Answerable(g)}}
    \cup
    {[src |-> FwdSocketAddr, pkt |-> [ReplyTo(f) EXCEPT !.len = 600],
      answers |-> f.uid] : f \in {g \in fwdSent : Answerable(g)}}
    \cup
    {[src |-> FwdSocketAddr, pkt |-> f.pkt, answers |-> f.uid] :
        f \in {g \in fwdSent : Answerable(g)}}

\* Anyone else may send a response carrying the ID of a pending Request
SpoofedDatagrams ==
    {[src |-> s,
      pkt |-> [b0 |-> id \div 256, b1 |-> id % 256, resp |-> TRUE, len |-> 45,
               wf |-> TRUE, body |-> <<"A", "spoofed">>],
      answers |-> 0] : s \in OtherSources, id \in DOMAIN mOutboxArray \cup {1}}
    \cup
    {[src |-> [addr |-> "1.2.3.4", port |-> 53],
      pkt |-> [b0 |-> 0, b1 |-> 1, resp |-> TRUE, len |-> 600, wf |-> TRUE,
               body |-> <<"A", "spoofed">>],
      answers |-> 0]}

(***************************************************************************)
(* Outbox thread: ServerThreadOutbox::ThreadMain / HandlePacket            *)
(***************************************************************************)
\* "Send reply to original client": the datagram received, with the
\* client's ID written back
ReplyForClient(packet, thisReq) == SetRawPacketID(packet, thisReq.mClientPacketID)

\* Variant: the QR bit is not looked at
IsQuestionNever(packet) == FALSE

\* "Make sure this is a response packet": the QR bit of the decoded header
IsQuestion(packet) == ~packet.resp

\* What one call of HandlePacket did (history)
OutboxEvent(outcome, m, req, elapsedMS, reply) ==
    <<[outcome |-> outcome, m |-> m, req |-> req, elapsedMS |-> elapsedMS,
       reply |-> reply]>>

OutboxHandlePacket(m) ==
    /\ ~mShuttingDown
    /\ IF TooLarge(m.pkt.len)
       THEN /\ lastOutbox' = OutboxEvent("too large", m, <<>>, 0, <<>>)
            /\ UNCHANGED <<mOutboxArray, mStatsServed, mStatsTimeOuts>>
       ELSE IF UnexpectedSource(FwdSocketAddr, m.src)
       THEN /\ lastOutbox' = OutboxEvent("unexpected source", m, <<>>, 0, <<>>)
            /\ UNCHANGED <<mOutboxArray, mStatsServed, mStatsTimeOuts>>
       ELSE LET ourID == GetRawPacketID(m.pkt) IN
            IF IsQuestion(m.pkt)
            THEN /\ lastOutbox' = OutboxEvent("question", m, <<>>, 0, <<>>)
                 /\ UNCHANGED <<mOutboxArray, mStatsServed, mStatsTimeOuts>>
            ELSE IF ~Occupied(mOutboxArray, ourID)
            THEN /\ lastOutbox' = OutboxEvent("no request", m, <<>>, 0, <<>>)
                 /\ UNCHANGED <<mOutboxArray, mStatsServed, mStatsTimeOuts>>
            ELSE LET thisReq == mOutboxArray[ourID]
                     elapsedMS == ElapsedMS(thisReq.mForwardedTime, now)
                 IN /\ mOutboxArray' = OutboxRemove(mOutboxArray, ourID)
                    /\ IF PassiveTimeout(elapsedMS)
                       THEN /\ mStatsTimeOuts' = mStatsTimeOuts + 1
                            /\ lastOutbox' = OutboxEvent("timeout", m, <<thisReq>>,
                                                         elapsedMS, <<>>)
                            /\ UNCHANGED mStatsServed
                       ELSE /\ mStatsServed' = mStatsServed + 1
                            /\ \E sent \in BOOLEAN :
                                 lastOutbox' = OutboxEvent(
                                     "served", m, <<thisReq>>, elapsedMS,
                                     IF sent
                                     THEN <<[to |-> thisReq.mClientAddr,
                                             pkt |-> ReplyForClient(m.pkt, thisReq),
                                             at |-> now]>>
                                     ELSE <<>>)
                            /\ UNCHANGED mStatsTimeOuts
    /\ UNCHANGED <<now, mShuttingDown, mStatsRequests, mGenIDCounter,
                   mGenIDMutex, mInboxQueue, mInboxQueueSemaphore,
                   mOutboxQueue, processPC, reqPtr, sleepUntil, nextUid,
                   fwdSent, lastSweep, otherVars>>

(***************************************************************************)
(* Maintainence thread: ServerThreadMaintainence::ThreadMain               *)
(***************************************************************************)
Maintainence ==
    /\ ~mShuttingDown
    /\ now >= sleepUntil
    /\ LET swept == OutboxTimeoutLoop(mOutboxArray, mOutboxQueue,
                                      mStatsTimeOuts, now) IN
       /\ mOutboxArray' = swept.array
       /\ mOutboxQueue' = swept.queue
       /\ mStatsTimeOuts' = swept.timeOuts
       /\ lastSweep' =
            <<[ages |-> {ElapsedMS(mOutboxArray[id].mForwardedTime, now) :
                           id \in DOMAIN mOutboxArray \ DOMAIN swept.array},
               uids |-> {mOutboxArray[id].uid :
                           id \in DOMAIN mOutboxArray \ DOMAIN swept.array},
               removed |-> Cardinality(DOMAIN mOutboxArray \ DOMAIN swept.array),
               popped |-> Len(mOutboxQueue) - Len(swept.queue)]>>
    /\ sleepUntil' = now + SERVER_TIMEOUT_SCAN_MS
    /\ UNCHANGED <<now, mShuttingDown, mStatsRequests, mStatsServed,
                   mGenIDCounter, mGenIDMutex, mInboxQueue,
                   mInboxQueueSemaphore, processPC, reqPtr, nextUid, fwdSent,
                   lastOutbox, otherVars>>

(***************************************************************************)
(* The pipeline                                                            *)
(***************************************************************************)
Next ==
    \/ Tick
    \/ \E d \in ClientDatagrams : InboxHandlePacket(d)
    \/ ProcessWait
    \/ ProcessHandleRequest
    \/ ProcessSend
    \/ \E m \in FwdDatagrams \cup SpoofedDatagrams : OutboxHandlePacket(m)
    \/ Maintainence

Spec == Init /\ [][Next]_vars

(***************************************************************************)
(* The ID generator alone, at its full width: NumCallers threads call      *)
(* GenerateUniqueID over and over.                                         *)
(***************************************************************************)
\* mGenIDMutex.lock()
GenLock(p) ==
    /\ genPC[p] = "idle"
    /\ mGenIDMutex = NoOwner
    /\ mGenIDMutex' = p
    /\ genPC' = [genPC EXCEPT ![p] = "locked"]
    /\ UNCHANGED <<mGenIDCounter, genIdOut, genLast>>
    /\ UNCHANGED pipelineVars

\* if (++mGenIDCounter == USHRT_MAX) mGenIDCounter = 1; idOut = mGenIDCounter
GenBody(p) ==
    /\ genPC[p] = "locked"
    /\ mGenIDCounter' = GenerateUniqueID(mGenIDCounter, USHRT_MAX)
    /\ genIdOut' = [genIdOut EXCEPT ![p] = mGenIDCounter']
    /\ genPC' = [genPC EXCEPT ![p] = "unlock"]
    /\ UNCHANGED <<mGenIDMutex, genLast>>
    /\ UNCHANGED pipelineVars

\* mGenIDMutex.unlock(); return idOut
GenUnlock(p) ==
    /\ genPC[p] = "unlock"
    /\ mGenIDMutex' = NoOwner
    /\ genLast' = genIdOut[p]
    /\ genIdOut' = [genIdOut EXCEPT ![p] = 0]
    /\ genPC' = [genPC EXCEPT ![p] = "idle"]
    /\ UNCHANGED mGenIDCounter
    /\ UNCHANGED pipelineVars

InitGen ==
    /\ Init
    /\ ~mShuttingDown
    /\ mStatsRequests = 0

NextGen == \E p \in Callers : GenLock(p) \/ GenBody(p) \/ GenUnlock(p)

SpecGen == InitGen /\ [][NextGen]_vars

(***************************************************************************)
(* The Outbox alone: Requests are inserted as HandleRequest inserts them,  *)
(* looked up as the Outbox thread looks them up for a response of the      *)
(* forward DNS server, and timed out by the Maintainence thread.  The ID   *)
(* space is scaled: OutboxIdLimit stands where the code has USHRT_MAX.     *)
(* Next to mOutboxArray runs unsweptArray, the table of a server that is   *)
(* given the same insertions and responses and never runs OutboxTimeout.   *)
(***************************************************************************)
\* array<unique_ptr<Request>, USHRT_MAX>: the indices of mOutboxArray
Slots(max) == 0..(max - 1)

\* unsigned short: the values the ID of a datagram can take
IdValues(max) == 0..max

\* The question that the Request uid of SpecOutbox carries: the clients
\* take turns and every question has an ID of its own
OutboxQuery(uid) ==
    [from |-> IF uid % 2 = 1 THEN "c1" ELSE "c2",
     pkt |-> Query(43980 + uid, "example.com", 29)]

\* The response of the forward DNS server that carries the ID ourID
Response(ourID) == SetRawPacketID(ReplyTo(OutboxQuery(1)), ourID)

\* mOutboxArray[id] = move(inReq): the Request the assignment destroys
EvictedBy(array, req) ==
    IF Occupied(array, req.mOurPacketID)
    THEN {array[req.mOurPacketID].uid}
    ELSE {}

\* HandleRequest from "Replace packet id with our own" through OutboxAdd
InsertRequest ==
    /\ ~mShuttingDown
    /\ nextUid <= MaxInserts
    /\ LET ourPacketId == GenerateUniqueID(mGenIDCounter, OutboxIdLimit)
           rewritten == ReplacePacketID(
                            NewRequest(nextUid, OutboxQuery(nextUid), now),
                            ourPacketId)
           added == OutboxAdd(mOutboxArray, mOutboxQueue, rewritten, now)
       IN /\ mStatsRequests' = mStatsRequests + 1
          /\ mGenIDCounter' = ourPacketId
          /\ mOutboxArray' = added.array
          /\ mOutboxQueue' = added.queue
          /\ evicted' = evicted \cup EvictedBy(mOutboxArray, rewritten)
          /\ unsweptArray' = OutboxAdd(unsweptArray, <<>>, rewritten, now).array
    /\ nextUid' = nextUid + 1
    /\ UNCHANGED <<now, mShuttingDown, mStatsServed, mStatsTimeOuts,
                   mGenIDMutex, mInboxQueue, mInboxQueueSemaphore, processPC,
                   reqPtr, sleepUntil, fwdSent, lastOutbox, lastSweep, genPC,
                   genIdOut, genLast, lastTake, shutdownVars, inboxVars, egressVars, packetVars>>

\* HandlePacket (Outbox thread) from "Lookup initial request" on, for a
\* response with the ID ourID: the table afterwards, the outcome, the
\* Request found and the datagram for the client
Lookup(array, ourID, rightNow) ==
    IF ~Occupied(array, ourID)
    THEN [array |-> array, outcome |-> "no request", req |-> <<>>,
          reply |-> <<>>]
    ELSE LET thisReq == array[ourID]
             elapsedMS == ElapsedMS(thisReq.mForwardedTime, rightNow)
         IN IF PassiveTimeout(elapsedMS)
            THEN [array |-> OutboxRemove(array, ourID), outcome |-> "timeout",
                  req |-> <<thisReq>>, reply |-> <<>>]
            ELSE [array |-> OutboxRemove(array, ourID), outcome |-> "served",
                  req |-> <<thisReq>>,
                  reply |-> <<[to |-> thisReq.mClientAddr,
                               pkt |-> ReplyForClient(Response(ourID), thisReq),
                               at |-> rightNow]>>]

\* What mOutboxArray[ourID] yields for an index past the end of the array:
\* the memory there reads as a null pointer or as a pointer to something
\* that is no Request, which is then taken for one that timed out or not
PastTheEnd == {"no request", "timeout", "served"}

\* Variant: both counters are incremented whatever the outcome
CountAlways(outcome, counted) == 1

Count(outcome, counted) == IF outcome = counted THEN 1 ELSE 0

\* What one lookup did, in this server and in the one that never runs
\* OutboxTimeout (history)
TakeEvent(ourID, found, unswept) ==
    <<[id |-> ourID, slot |-> ourID \in Slots(OutboxIdLimit),
       outcome |-> found.outcome, req |-> found.req, reply |-> found.reply,
       unsweptOutcome |-> unswept.outcome, unsweptReq |-> unswept.req,
       unsweptReply |-> unswept.reply]>>

\* The Outbox thread handles a response of the forward DNS server
TakeReply(ourID) ==
    /\ ~mShuttingDown
    /\ IF ourID \in Slots(OutboxIdLimit)
       THEN LET found == Lookup(mOutboxArray, ourID, now)
                unswept == Lookup(unsweptArray, ourID, now)
            IN /\ mOutboxArray' = found.array
               /\ unsweptArray' = unswept.array
               /\ mStatsServed' = mStatsServed + Count(found.outcome, "served")
               /\ mStatsTimeOuts' = mStatsTimeOuts
                                      + Count(found.outcome, "timeout")
               /\ lastTake' = TakeEvent(ourID, found, unswept)
       ELSE \E outcome \in PastTheEnd :
               LET found == [outcome |-> outcome, req |-> <<>>, reply |-> <<>>]
               IN /\ outcome # "no request" =>
                        mStatsServed + mStatsTimeOuts < MaxInserts
                  /\ mStatsServed' = mStatsServed + Count(outcome, "served")
                  /\ mStatsTimeOuts' = mStatsTimeOuts + Count(outcome, "timeout")
                  /\ lastTake' = TakeEvent(ourID, found, found)
                  /\ UNCHANGED <<mOutboxArray, unsweptArray>>
    /\ UNCHANGED <<now, mShuttingDown, mStatsRequests, mGenIDCounter,
                   mGenIDMutex, mInboxQueue, mInboxQueueSemaphore,
                   mOutboxQueue, processPC, reqPtr, sleepUntil, nextUid,
                   fwdSent, lastOutbox, lastSweep, genPC, genIdOut, genLast,
                   evicted, shutdownVars, inboxVars, egressVars, packetVars>>

\* The constructor happens to leave the counters at zero and mShuttingDown
\* false
InitOutbox ==
    /\ Init
    /\ ~mShuttingDown
    /\ mStatsRequests = 0
    /\ mStatsServed = 0
    /\ mStatsTimeOuts = 0

NextOutbox ==
    \/ Tick
    \/ InsertRequest
    \/ \E ourID \in IdValues(OutboxIdLimit) : TakeReply(ourID)
    \/ Maintainence

SpecOutbox == InitOutbox /\ [][NextOutbox]_vars

(***************************************************************************)
(* The InboxQueue alone, with scaleCount Inbox threads and scaleCount       *)
(* Process threads: InboxQueuePushBack pushes under mInboxQueueMutex and    *)
(* posts the semaphore after the unlock, a Process thread waits on the      *)
(* semaphore and then pops under the mutex.  What the threads do with the   *)
(* Request is the pipeline above.  The threads are fair.                    *)
(***************************************************************************)
\* Variant: the semaphore is posted twice
SemPostTwice(sem) == sem + 2

\* sem_post(mInboxQueueSemaphore)
SemPost(sem) == sem + 1

\* sem_wait(mInboxQueueSemaphore), once it returns
SemWait(sem) == sem - 1

\* Variant: the newest Request is taken
PopBack(queue) ==
    [req |-> queue[Len(queue)], queue |-> SubSeq(queue, 1, Len(queue) - 1)]

\* What is handled as a Request when front() was read from an empty queue
NoRequest == 0

\* InboxQueuePopFront: move(mInboxQueue.front()), mInboxQueue.pop()
PopFront(queue) == [req |-> Head(queue), queue |-> Tail(queue)]

\* What the pipeline's variables other than the InboxQueue are left as
notInboxVars ==
    <<now, mShuttingDown, mStatsRequests, mStatsServed, mStatsTimeOuts,
      mGenIDCounter, mGenIDMutex, mOutboxArray, mOutboxQueue, processPC,
      reqPtr, sleepUntil, fwdSent, lastOutbox, lastSweep, genPC, genIdOut,
      genLast, evicted, unsweptArray, lastTake, shutdownVars, egressVars, packetVars>>

\* Inbox thread, HandlePacket up to the unlock in InboxQueuePushBack
InboxPush(t) ==
    /\ inboxPC[t] = "recv"
    /\ nextUid <= MaxPushes
    /\ mInboxQueue' = Append(mInboxQueue,
                             NewRequest(nextUid, OutboxQuery(nextUid), now))
    /\ nextUid' = nextUid + 1
    /\ inboxPC' = [inboxPC EXCEPT ![t] = "post"]
    /\ UNCHANGED <<mInboxQueueSemaphore, procPC, popped, poppedEmpty>>
    /\ UNCHANGED notInboxVars

\* InboxQueuePushBack after the unlock: sem_post
InboxPost(t) ==
    /\ inboxPC[t] = "post"
    /\ mInboxQueueSemaphore' = SemPost(mInboxQueueSemaphore)
    /\ inboxPC' = [inboxPC EXCEPT ![t] = "recv"]
    /\ UNCHANGED <<mInboxQueue, nextUid, procPC, popped, poppedEmpty>>
    /\ UNCHANGED notInboxVars

\* Process thread: InboxQueueWaitForData returns 0
ProcWait(t) ==
    /\ procPC[t] = "wait"
    /\ mInboxQueueSemaphore > 0
    /\ mInboxQueueSemaphore' = SemWait(mInboxQueueSemaphore)
    /\ procPC' = [procPC EXCEPT ![t] = "pop"]
    /\ UNCHANGED <<mInboxQueue, nextUid, inboxPC, popped, poppedEmpty>>
    /\ UNCHANGED notInboxVars

\* Process thread: InboxQueuePopFront.  It calls front() without asking
\* whether the queue is empty; on an empty queue that read is undefined,
\* it yields nullptr (the thread goes back to wait) or something else
ProcPop(t) ==
    /\ procPC[t] = "pop"
    /\ IF mInboxQueue # <<>>
       THEN LET front == PopFront(mInboxQueue) IN
            /\ mInboxQueue' = front.queue
            /\ popped' = Append(popped, [uid |-> front.req.uid, by |-> t])
            /\ procPC' = [procPC EXCEPT ![t] = "handle"]
            /\ UNCHANGED poppedEmpty
       ELSE /\ poppedEmpty' = TRUE
            /\ \/ /\ procPC' = [procPC EXCEPT ![t] = "wait"]
                  /\ UNCHANGED popped
               \/ /\ procPC' = [procPC EXCEPT ![t] = "handle"]
                  /\ popped' = Append(popped, [uid |-> NoRequest, by |-> t])
            /\ UNCHANGED mInboxQueue
    /\ UNCHANGED <<mInboxQueueSemaphore, nextUid, inboxPC>>
    /\ UNCHANGED notInboxVars

\* Process thread: HandleRequest returns, the loop goes round
ProcHandled(t) ==
    /\ procPC[t] = "handle"
    /\ procPC' = [procPC EXCEPT ![t] = "wait"]
    /\ UNCHANGED <<mInboxQueue, mInboxQueueSemaphore, nextUid, inboxPC,
                   popped, poppedEmpty>>
    /\ UNCHANGED notInboxVars

InitInbox ==
    /\ InitMembers
    /\ mInboxQueueSemaphore \in SemaphoreStart
    /\ ~mShuttingDown
    /\ mStatsRequests = 0
    /\ mStatsServed = 0
    /\ mStatsTimeOuts = 0

NextInbox ==
    \/ \E t \in Threads : InboxPush(t)
    \/ \E t \in Threads : InboxPost(t)
    \/ \E t \in Threads : ProcWait(t)
    \/ \E t \in Threads : ProcPop(t)
    \/ \E t \in Threads : ProcHandled(t)

FairInbox ==
    \A t \in Threads :
        /\ WF_vars(InboxPost(t))
        /\ WF_vars(ProcWait(t))
        /\ WF_vars(ProcPop(t))
        /\ WF_vars(ProcHandled(t))

SpecInbox == InitInbox /\ [][NextInbox]_vars /\ FairInbox

(***************************************************************************)
(* The Outbox thread in steps, with scaleCount Outbox threads: OutboxRemove *)
(* runs under mOutboxMutex, then the thread works on the Request it was     *)
(* handed, outside the lock: the elapsed time, the counters, the sendto to  *)
(* the client.  Requests are inserted as in SpecOutbox, and the forward DNS *)
(* server sends responses with any ID at any time, any number of times.     *)
(***************************************************************************)
notEgressVars ==
    <<now, mShuttingDown, mStatsRequests, mGenIDCounter, mGenIDMutex,
      mInboxQueue, mInboxQueueSemaphore, mOutboxQueue, processPC, reqPtr,
      sleepUntil, nextUid, fwdSent, lastOutbox, lastSweep, genPC, genIdOut,
      genLast, evicted, unsweptArray, lastTake, shutdownVars, inboxVars,
      packetVars>>

\* What OutboxRemove returns for an ID past the end of mOutboxArray when the
\* memory there does not read as a null pointer: something that is no
\* Request, with any time in mForwardedTime
NotARequest(rightNow) ==
    {[NewRequest(NoRequest, OutboxQuery(NoRequest), 0) EXCEPT
         !.mForwardedTime = f] : f \in {0, rightNow}}

\* HandlePacket from the top through "Lookup initial request", for a
\* response of the forward DNS server with the ID ourID
OutboxLookup(t, ourID) ==
    /\ ~mShuttingDown
    /\ outboxPC[t] = "recv"
    /\ IF ourID \in Slots(OutboxIdLimit)
       THEN IF Occupied(mOutboxArray, ourID)
            THEN /\ outboxReq' = [outboxReq EXCEPT ![t] = <<mOutboxArray[ourID]>>]
                 /\ mOutboxArray' = OutboxRemove(mOutboxArray, ourID)
                 /\ outboxPC' = [outboxPC EXCEPT ![t] = "elapsed"]
            ELSE UNCHANGED <<mOutboxArray, outboxPC, outboxReq>>
       ELSE /\ mStatsServed + mStatsTimeOuts < MaxInserts
            /\ \E garbage \in NotARequest(now) :
                  outboxReq' = [outboxReq EXCEPT ![t] = <<garbage>>]
            /\ outboxPC' = [outboxPC EXCEPT ![t] = "elapsed"]
            /\ UNCHANGED mOutboxArray
    /\ UNCHANGED <<mStatsServed, mStatsTimeOuts, sentToClient, notEgressVars>>

\* The process is there: no thread has ended it
Running == \A t \in Threads : outboxPC[t] # "aborted"

\* ~unique_ptr<Request> at the return of HandlePacket: delete of what
\* OutboxRemove returned, through the virtual ~Request().  For something
\* that is no Request the call is undefined: the thread goes on to its
\* recvfrom, or the process ends there with all its threads.
AfterDelete(t) ==
    {[outboxPC EXCEPT ![t] = "recv"]}
    \cup IF outboxReq[t][1].uid = NoRequest
         THEN {[u \in Threads |-> "aborted"]}
         ELSE {}

\* "Calculate elapsed time", "Passive timeout", and the two increments
\* before the sendto
OutboxElapsed(t) ==
    /\ ~mShuttingDown
    /\ outboxPC[t] = "elapsed"
    /\ LET elapsedMS == ElapsedMS(outboxReq[t][1].mForwardedTime, now) IN
       IF PassiveTimeout(elapsedMS)
       THEN /\ mStatsTimeOuts' = mStatsTimeOuts + 1
            /\ outboxReq' = [outboxReq EXCEPT ![t] = <<>>]
            /\ outboxPC' \in AfterDelete(t)
            /\ UNCHANGED mStatsServed
       ELSE /\ mStatsServed' = mStatsServed + 1
            /\ outboxPC' = [outboxPC EXCEPT ![t] = "send"]
            /\ UNCHANGED <<mStatsTimeOuts, outboxReq>>
    /\ UNCHANGED <<mOutboxArray, sentToClient, notEgressVars>>

\* sendto(serverSocket, ..., clientAddress): the datagram goes out or the
\* call fails and is reported; HandlePacket returns 0 either way and thisReq
\* is destroyed
OutboxSendto(t) ==
    /\ ~mShuttingDown
    /\ outboxPC[t] = "send"
    /\ \E sent \in BOOLEAN :
          sentToClient' =
              IF sent
              THEN [sentToClient EXCEPT ![outboxReq[t][1].uid] = @ + 1]
              ELSE sentToClient
    /\ outboxReq' = [outboxReq EXCEPT ![t] = <<>>]
    /\ outboxPC' \in AfterDelete(t)
    /\ UNCHANGED <<mOutboxArray, mStatsServed, mStatsTimeOuts, notEgressVars>>

\* The clock is followed until the Requests inserted at the start have
\* reached SERVER_TIMEOUT_MS
TickToTimeout == now < SERVER_TIMEOUT_MS /\ Tick

NextEgress ==
    \/ TickToTimeout
    \/ Running /\ InsertRequest
    \/ \E t \in Threads, ourID \in IdValues(OutboxIdLimit) : OutboxLookup(t, ourID)
    \/ \E t \in Threads : OutboxElapsed(t)
    \/ \E t \in Threads : OutboxSendto(t)
    \/ Running /\ Maintainence

SpecEgress == InitOutbox /\ [][NextEgress]_vars

(***************************************************************************)
(* The pipeline when the forward DNS server never answers: the Inbox,      *)
(* Process and Maintainence threads run, nothing arrives on the forward    *)
(* socket.  The Maintainence thread's loop and the clock are fair.         *)
(* Requests whose timeout would fall beyond the explored clock are not     *)
(* forwarded.                                                              *)
(***************************************************************************)
Horizon == MaxTicks * ClockStep

ForwardInTime ==
    /\ now + SERVER_TIMEOUT_MS <= Horizon
    /\ ProcessHandleRequest

InitSilent ==
    /\ Init
    /\ ~mShuttingDown
    /\ mStatsRequests = 0
    /\ mStatsServed = 0
    /\ mStatsTimeOuts = 0

NextSilent ==
    \/ Tick
    \/ \E d \in ClientDatagrams : InboxHandlePacket(d)
    \/ ProcessWait
    \/ ForwardInTime
    \/ ProcessSend
    \/ Maintainence

SpecSilent ==
    /\ InitSilent
    /\ [][NextSilent]_vars
    /\ WF_vars(Tick)
    /\ WF_vars(Maintainence)

(***************************************************************************)
(* Shutdown: RunServer from the wait on sShuttingDownCV on, HandleSignal,  *)
(* and the loop of each ThreadMain.  What the threads do with a datagram   *)
(* or Request is the pipeline above; here a thread is at the test of its   *)
(* loop ("loop"), inside its blocking call, a cancellation point           *)
(* ("blocked": recvfrom, sem_wait, sleep_for), in its handler ("handling"),*)
(* or gone ("returned" from ThreadMain, or "cancelled").                   *)
(***************************************************************************)
\* Signals delivered in one run
MaxSignals == 2

\* The order in which RunServer cancels and joins the threads
ShutdownOrder == <<"inbox", "process", "outbox", "maintainence">>

\* The Inbox, Process and Outbox threads call their handler with
\* PTHREAD_CANCEL_DISABLE; the Maintainence thread calls OutboxTimeout with
\* cancellation enabled, and the printf in it is a cancellation point
CancelDisabled(w) == w # "maintainence"

Terminated(w) == worker[w] \in {"returned", "cancelled"}

ProcessRunning == mainPC \notin {"done", "killed"}

\* Variant: pthread_cancel is not called
CancelRequestNone(pending, w) == pending

\* pthread_cancel: the request stays pending until the thread acts on it
CancelRequest(pending, w) == pending \cup {w}

\* unique_lock on sShuttingDownCVMutex, sShuttingDownCV.wait begins
CoordinatorWait ==
    /\ mainPC = "start"
    /\ mainPC' = "waiting"
    /\ UNCHANGED <<target, handlers, worker, cancelPending, cancelState,
                   statsPrinted,
                   signals, deliveredWaiting, handledWaiting>>
    /\ UNCHANGED <<now, mShuttingDown, mStatsRequests, mStatsServed,
                   mStatsTimeOuts, mGenIDCounter, mGenIDMutex, mInboxQueue,
                   mInboxQueueSemaphore, mOutboxArray, mOutboxQueue, processPC,
                   reqPtr, sleepUntil, nextUid, fwdSent, lastOutbox, lastSweep,
                   genPC, genIdOut, genLast, evicted, unsweptArray, lastTake, inboxVars, egressVars, packetVars>>

\* SIGINT, SIGILL, SIGTERM or SIGABRT arrives.  With the handler installed
\* HandleSignal runs: notify_all wakes the coordinator if it waits, then the
\* four signals are set to nullptr (SIG_DFL).  With the default action in
\* place the signal ends the process.
Signal ==
    /\ ProcessRunning
    /\ signals < MaxSignals
    /\ signals' = signals + 1
    /\ deliveredWaiting' = (deliveredWaiting \/ mainPC = "waiting")
    /\ IF handlers = "HandleSignal"
       THEN /\ mainPC' = IF mainPC = "waiting" THEN "woken" ELSE mainPC
            /\ handlers' = "SIG_DFL"
            /\ handledWaiting' = (handledWaiting \/ mainPC = "waiting")
       ELSE /\ mainPC' = "killed"
            /\ UNCHANGED <<handlers, handledWaiting>>
    /\ UNCHANGED <<target, worker, cancelPending, cancelState, statsPrinted>>
    /\ UNCHANGED <<now, mShuttingDown, mStatsRequests, mStatsServed,
                   mStatsTimeOuts, mGenIDCounter, mGenIDMutex, mInboxQueue,
                   mInboxQueueSemaphore, mOutboxArray, mOutboxQueue, processPC,
                   reqPtr, sleepUntil, nextUid, fwdSent, lastOutbox, lastSweep,
                   genPC, genIdOut, genLast, evicted, unsweptArray, lastTake, inboxVars, egressVars, packetVars>>

\* condition_variable::wait takes no predicate: it may return with no
\* notification
SpuriousWakeup ==
    /\ mainPC = "waiting"
    /\ mainPC' = "woken"
    /\ UNCHANGED <<target, handlers, worker, cancelPending, cancelState,
                   statsPrinted,
                   signals, deliveredWaiting, handledWaiting>>
    /\ UNCHANGED <<now, mShuttingDown, mStatsRequests, mStatsServed,
                   mStatsTimeOuts, mGenIDCounter, mGenIDMutex, mInboxQueue,
                   mInboxQueueSemaphore, mOutboxArray, mOutboxQueue, processPC,
                   reqPtr, sleepUntil, nextUid, fwdSent, lastOutbox, lastSweep,
                   genPC, genIdOut, genLast, evicted, unsweptArray, lastTake, inboxVars, egressVars, packetVars>>

\* this->mShuttingDown = true
CoordinatorShutdown ==
    /\ mainPC = "woken"
    /\ mShuttingDown' = TRUE
    /\ mainPC' = "cancel"
    /\ target' = 1
    /\ UNCHANGED <<handlers, worker, cancelPending, cancelState,
                   statsPrinted, signals,
                   deliveredWaiting, handledWaiting>>
    /\ UNCHANGED <<now, mStatsRequests, mStatsServed,
                   mStatsTimeOuts, mGenIDCounter, mGenIDMutex, mInboxQueue,
                   mInboxQueueSemaphore, mOutboxArray, mOutboxQueue, processPC,
                   reqPtr, sleepUntil, nextUid, fwdSent, lastOutbox, lastSweep,
                   genPC, genIdOut, genLast, evicted, unsweptArray, lastTake, inboxVars, egressVars, packetVars>>

\* pthread_cancel(native_handle()) of the next thread
CoordinatorCancel ==
    /\ mainPC = "cancel"
    /\ cancelPending' = IF Terminated(ShutdownOrder[target])
                        THEN cancelPending
                        ELSE CancelRequest(cancelPending, ShutdownOrder[target])
    /\ mainPC' = "join"
    /\ UNCHANGED <<target, handlers, worker, cancelState, statsPrinted, signals,
                   deliveredWaiting, handledWaiting>>
    /\ UNCHANGED <<now, mShuttingDown, mStatsRequests, mStatsServed,
                   mStatsTimeOuts, mGenIDCounter, mGenIDMutex, mInboxQueue,
                   mInboxQueueSemaphore, mOutboxArray, mOutboxQueue, processPC,
                   reqPtr, sleepUntil, nextUid, fwdSent, lastOutbox, lastSweep,
                   genPC, genIdOut, genLast, evicted, unsweptArray, lastTake, inboxVars, egressVars, packetVars>>

\* GetThread()->join() returns when the thread is gone; after the last one
\* comes "Print stats"
CoordinatorJoin ==
    /\ mainPC = "join"
    /\ Terminated(ShutdownOrder[target])
    /\ IF target < Len(ShutdownOrder)
       THEN /\ target' = target + 1
            /\ mainPC' = "cancel"
       ELSE /\ mainPC' = "stats"
            /\ UNCHANGED target
    /\ UNCHANGED <<handlers, worker, cancelPending, cancelState,
                   statsPrinted, signals,
                   deliveredWaiting, handledWaiting>>
    /\ UNCHANGED <<now, mShuttingDown, mStatsRequests, mStatsServed,
                   mStatsTimeOuts, mGenIDCounter, mGenIDMutex, mInboxQueue,
                   mInboxQueueSemaphore, mOutboxArray, mOutboxQueue, processPC,
                   reqPtr, sleepUntil, nextUid, fwdSent, lastOutbox, lastSweep,
                   genPC, genIdOut, genLast, evicted, unsweptArray, lastTake, inboxVars, egressVars, packetVars>>

\* "Print stats", return 0
CoordinatorPrintStats ==
    /\ mainPC = "stats"
    /\ statsPrinted' = Append(statsPrinted,
           [requests |-> mStatsRequests, served |-> mStatsServed,
            timeOuts |-> mStatsTimeOuts,
            processing |-> mStatsRequests - (mStatsServed + mStatsTimeOuts)])
    /\ mainPC' = "done"
    /\ UNCHANGED <<target, handlers, worker, cancelPending, cancelState, signals,
                   deliveredWaiting, handledWaiting>>
    /\ UNCHANGED <<now, mShuttingDown, mStatsRequests, mStatsServed,
                   mStatsTimeOuts, mGenIDCounter, mGenIDMutex, mInboxQueue,
                   mInboxQueueSemaphore, mOutboxArray, mOutboxQueue, processPC,
                   reqPtr, sleepUntil, nextUid, fwdSent, lastOutbox, lastSweep,
                   genPC, genIdOut, genLast, evicted, unsweptArray, lastTake, inboxVars, egressVars, packetVars>>

\* "while (!mServer->ShuttingDown())" and the entry into the blocking call.
\* mShuttingDown is a plain bool written by the coordinator with no
\* synchronization: the thread may still read false after the write.  A
\* thread that enters its cancellation point with a cancel pending and
\* cancellation enabled is cancelled there.
WorkerLoop(w) ==
    /\ ProcessRunning
    /\ worker[w] = "loop"
    /\ \E seen \in {mShuttingDown, FALSE} :
          worker' = [worker EXCEPT ![w] =
                        IF seen THEN "returned"
                        ELSE IF w \in cancelPending /\ cancelState[w] = "enable"
                             THEN "cancelled"
                        ELSE "blocked"]
    /\ UNCHANGED <<mainPC, target, handlers, cancelPending, cancelState,
                   statsPrinted, signals, deliveredWaiting, handledWaiting>>
    /\ UNCHANGED <<now, mShuttingDown, mStatsRequests, mStatsServed,
                   mStatsTimeOuts, mGenIDCounter, mGenIDMutex, mInboxQueue,
                   mInboxQueueSemaphore, mOutboxArray, mOutboxQueue, processPC,
                   reqPtr, sleepUntil, nextUid, fwdSent, lastOutbox, lastSweep,
                   genPC, genIdOut, genLast, evicted, unsweptArray, lastTake, inboxVars, egressVars, packetVars>>

\* The blocking call returns: with a datagram, a Request or the end of the
\* sleep the handler is called, for the Inbox, Process and Outbox threads
\* after pthread_setcancelstate(PTHREAD_CANCEL_DISABLE); recvfrom and
\* sem_wait may also fail, then the loop continues.  What is pushed and
\* posted by InboxQueuePushBack is not kept here: mInboxQueueSemaphore is what
\* the semaphore holds beyond that, and mInboxQueue stays empty.
WorkerWake(w) ==
    /\ ProcessRunning
    /\ worker[w] = "blocked"
    /\ \E next \in IF w = "maintainence" THEN {"handling"}
                   ELSE {"handling", "loop"} :
          /\ worker' = [worker EXCEPT ![w] = next]
          /\ cancelState' = IF next = "handling" /\ CancelDisabled(w)
                            THEN [cancelState EXCEPT ![w] = "disable"]
                            ELSE cancelState
    /\ UNCHANGED <<mainPC, target, handlers, cancelPending, statsPrinted,
                   signals, deliveredWaiting, handledWaiting>>
    /\ UNCHANGED <<now, mShuttingDown, mStatsRequests, mStatsServed,
                   mStatsTimeOuts, mGenIDCounter, mGenIDMutex, mInboxQueue,
                   mInboxQueueSemaphore, mOutboxArray, mOutboxQueue, processPC,
                   reqPtr, sleepUntil, nextUid, fwdSent, lastOutbox, lastSweep,
                   genPC, genIdOut, genLast, evicted, unsweptArray, lastTake, inboxVars, egressVars, packetVars>>

\* Process ThreadMain: sem_wait returns on a count that no push stands for,
\* cancellation is disabled and InboxQueuePopFront reads front() of the empty
\* queue.  On nullptr the "continue" leaves the try block past
\* pthread_setcancelstate(PTHREAD_CANCEL_ENABLE); on anything else
\* HandleRequest is called with it.
ProcessPopEmpty ==
    /\ ProcessRunning
    /\ worker["process"] = "blocked"
    /\ mInboxQueue = <<>>
    /\ mInboxQueueSemaphore > 0
    /\ mInboxQueueSemaphore' = SemWait(mInboxQueueSemaphore)
    /\ cancelState' = [cancelState EXCEPT !["process"] = "disable"]
    /\ \E next \in {"loop", "handling"} :
          worker' = [worker EXCEPT !["process"] = next]
    /\ UNCHANGED <<mainPC, target, handlers, cancelPending, statsPrinted,
                   signals, deliveredWaiting, handledWaiting>>
    /\ UNCHANGED <<now, mShuttingDown, mStatsRequests, mStatsServed,
                   mStatsTimeOuts, mGenIDCounter, mGenIDMutex, mInboxQueue,
                   mOutboxArray, mOutboxQueue, processPC,
                   reqPtr, sleepUntil, nextUid, fwdSent, lastOutbox, lastSweep,
                   genPC, genIdOut, genLast, evicted, unsweptArray, lastTake, inboxVars, egressVars, packetVars>>

\* The handler returns, pthread_setcancelstate(PTHREAD_CANCEL_ENABLE) where
\* it was disabled, and the loop goes round.  Where cancellation is not
\* disabled a pending cancel may be acted on inside the handler.
WorkerHandled(w) ==
    /\ ProcessRunning
    /\ worker[w] = "handling"
    /\ \E next \in IF cancelState[w] = "enable" /\ w \in cancelPending
                   THEN {"loop", "cancelled"}
                   ELSE {"loop"} :
          worker' = [worker EXCEPT ![w] = next]
    /\ cancelState' = [cancelState EXCEPT ![w] = "enable"]
    /\ UNCHANGED <<mainPC, target, handlers, cancelPending, statsPrinted,
                   signals, deliveredWaiting, handledWaiting>>
    /\ UNCHANGED <<now, mShuttingDown, mStatsRequests, mStatsServed,
                   mStatsTimeOuts, mGenIDCounter, mGenIDMutex, mInboxQueue,
                   mInboxQueueSemaphore, mOutboxArray, mOutboxQueue, processPC,
                   reqPtr, sleepUntil, nextUid, fwdSent, lastOutbox, lastSweep,
                   genPC, genIdOut, genLast, evicted, unsweptArray, lastTake, inboxVars, egressVars, packetVars>>

\* A thread inside recvfrom, sem_wait or sleep_for acts on a pending cancel
\* if its cancellation is enabled
WorkerCancelled(w) ==
    /\ ProcessRunning
    /\ worker[w] = "blocked"
    /\ w \in cancelPending
    /\ cancelState[w] = "enable"
    /\ worker' = [worker EXCEPT ![w] = "cancelled"]
    /\ UNCHANGED <<mainPC, target, handlers, cancelPending, cancelState,
                   statsPrinted, signals, deliveredWaiting, handledWaiting>>
    /\ UNCHANGED <<now, mShuttingDown, mStatsRequests, mStatsServed,
                   mStatsTimeOuts, mGenIDCounter, mGenIDMutex, mInboxQueue,
                   mInboxQueueSemaphore, mOutboxArray, mOutboxQueue, processPC,
                   reqPtr, sleepUntil, nextUid, fwdSent, lastOutbox, lastSweep,
                   genPC, genIdOut, genLast, evicted, unsweptArray, lastTake, inboxVars, egressVars, packetVars>>

InitShutdown ==
    /\ InitMembers
    /\ mInboxQueueSemaphore \in SemaphoreStart
    /\ mStatsRequests = 0
    /\ mStatsServed = 0
    /\ mStatsTimeOuts = 0

NextShutdown ==
    \/ CoordinatorWait
    \/ Signal
    \/ SpuriousWakeup
    \/ CoordinatorShutdown
    \/ CoordinatorCancel
    \/ CoordinatorJoin
    \/ CoordinatorPrintStats
    \/ \E w \in Workers : WorkerLoop(w)
    \/ \E w \in Workers : WorkerWake(w)
    \/ ProcessPopEmpty
    \/ \E w \in Workers : WorkerHandled(w)
    \/ \E w \in Workers : WorkerCancelled(w)

\* The coordinator and every thread that can take a step of its own does
\* so; datagrams and signals come or do not come
FairShutdown ==
    /\ WF_vars(CoordinatorWait)
    /\ WF_vars(CoordinatorShutdown)
    /\ WF_vars(CoordinatorCancel)
    /\ WF_vars(CoordinatorJoin)
    /\ WF_vars(CoordinatorPrintStats)
    /\ \A w \in Workers :
          /\ WF_vars(WorkerLoop(w))
          /\ WF_vars(WorkerHandled(w))
          /\ WF_vars(WorkerCancelled(w))
    /\ WF_vars(ProcessPopEmpty)

SpecShutdown == InitShutdown /\ [][NextShutdown]_vars /\ FairShutdown

(***************************************************************************)
(* The packet codec alone: a DNSPacket is given the bytes of a datagram     *)
(* (SetRawData) and is decoded, or has its ID written and read back.  The  *)
(* datagrams are a header and up to MaxNameBytes further bytes with small   *)
(* values, which stand for section lengths and for characters alike, and   *)
(* the beginnings of a header.                                             *)
(***************************************************************************)
notPacketVars ==
    <<now, mShuttingDown, mStatsRequests, mStatsServed, mStatsTimeOuts,
      mGenIDCounter, mGenIDMutex, mInboxQueue, mInboxQueueSemaphore,
      mOutboxArray, mOutboxQueue, processPC, reqPtr, sleepUntil, nextUid,
      fwdSent, lastOutbox, lastSweep, genPC, genIdOut, genLast, evicted,
      unsweptArray, lastTake, shutdownVars, inboxVars, egressVars>>

\* Values of the bytes after the header
ByteValues == {0, 1, 2}

\* A header: ID 1, the QR bit clear or set, one question
Headers == {<<0, 1, flags, 0, 0, 1, 0, 0, 0, 0, 0, 0>> : flags \in {0, 128}}

\* The datagrams recvfrom may give
RawDatagrams ==
    {SubSeq(h, 1, n) : h \in Headers, n \in 0..(HeaderSize - 1)}
    \cup
    {h \o tail : h \in Headers,
                 tail \in UNION {[1..n -> ByteValues] : n \in 0..MaxNameBytes}}

\* DNSPacket packet; packet.SetRawData(inData, inLen)
SetRawData ==
    /\ codecPC = "new"
    /\ \E inData \in RawDatagrams : mRawPacketData' = inData
    /\ codecPC' = "set"
    /\ UNCHANGED <<codec, notPacketVars>>

\* packet.Decode()
PacketDecode ==
    /\ codecPC = "set"
    /\ codec' = <<[call |-> "Decode", rc |-> DecodeRaw(mRawPacketData).rc,
                   mQuestionName |-> DecodeRaw(mRawPacketData).mQuestionName]>>
    /\ codecPC' = "done"
    /\ UNCHANGED <<mRawPacketData, notPacketVars>>

\* Characters of the names given to EncodeAddrStr
NameChars == {97, 98}

\* What the destination buffer holds before the call
FillBytes == {0, 255}

\* The sections of a name: one to MaxSections of them, of 0 to 2 characters
Sections ==
    UNION {[1..k -> UNION {[1..n -> NameChars] : n \in 0..2}] :
              k \in 1..MaxSections}

\* The sections with a period between each two
RECURSIVE Dotted(_)
Dotted(sections) ==
    IF Len(sections) = 1 THEN sections[1]
    ELSE sections[1] \o <<Period>> \o Dotted(Tail(sections))

\* EncodeAddrStr on a buffer of room bytes
PacketEncodeAddrStr ==
    /\ codecPC = "new"
    /\ \E sections \in Sections, room \in 0..MaxRoom, fill \in FillBytes :
          LET out == EncodeAddrStr([i \in 1..room |-> fill], room,
                                   Dotted(sections))
          IN codec' = <<[call |-> "EncodeAddrStr", sections |-> sections,
                         inString |-> Dotted(sections), room |-> room,
                         rc |-> out.rc, buffer |-> out.buffer,
                         ioDataLen |-> out.ioDataLen]>>
    /\ codecPC' = "done"
    /\ UNCHANGED <<mRawPacketData, notPacketVars>>

\* The DNSPacket that holds the bytes data: the two bytes of the ID, the QR
\* bit, the length, whether Decode succeeds, and the bytes from offset 2 on.
\* Where the datagram has fewer than 2 bytes, memcpy of sizeof(unsigned
\* short) bytes goes past mRawPacketLen and reads what the heap holds there.
AsPacket(data, heap) ==
    [b0 |-> IF Len(data) >= 1 THEN data[1] ELSE heap,
     b1 |-> IF Len(data) >= 2 THEN data[2] ELSE heap,
     resp |-> Len(data) >= 3 /\ data[3] >= 128,
     len |-> Len(data),
     wf |-> DecodeRaw(data).rc = 0,
     body |-> SubSeq(data, 3, Len(data))]

\* mRawPacketData, mRawPacketLen of the DNSPacket
RawBytes(pkt) == SubSeq(<<pkt.b0, pkt.b1>> \o pkt.body, 1, pkt.len)

\* The IDs written
PacketIDs == {0, 255, 256, 43981, 65535}

\* packet.SetRawPacketID(inID)
PacketSetRawPacketID ==
    /\ codecPC = "set"
    /\ \E inID \in PacketIDs, heap \in FillBytes :
          /\ mRawPacketData' =
                 RawBytes(SetRawPacketID(AsPacket(mRawPacketData, heap), inID))
          /\ codec' = <<[call |-> "SetRawPacketID", inID |-> inID,
                         before |-> mRawPacketData]>>
    /\ codecPC' = "written"
    /\ UNCHANGED notPacketVars

\* packet.GetRawPacketID(outID) after it
PacketGetRawPacketID ==
    /\ codecPC = "written"
    /\ \E heap \in FillBytes :
          codec' = <<[call |-> "GetRawPacketID",
                      outID |-> GetRawPacketID(AsPacket(mRawPacketData, heap)),
                      inID |-> codec[1].inID, before |-> codec[1].before]>>
    /\ codecPC' = "done"
    /\ UNCHANGED <<mRawPacketData, notPacketVars>>

\* malloc(mRawPacketLen) for a datagram of no bytes gives a null pointer or a
\* pointer to no bytes; for any other it gives a buffer
MallocResults(inLen) == IF inLen = 0 THEN {"null", "buffer"} ELSE {"buffer"}

\* ServerThreadOutbox::HandlePacket for a datagram from the forward DNS
\* server, from the top to "Make sure this is a response packet": SetRawData,
\* GetRawPacketID unless mRawPacketData is null, Decode with its return code
\* dropped, then the test of mHeader.resp, which Decode has filled from the
\* datagram if it had HeaderSize bytes and which is as the constructor left
\* it if not
OutboxReadID ==
    /\ codecPC = "new"
    /\ \E inData \in RawDatagrams, heap \in FillBytes, left \in BOOLEAN :
       \E malloc \in MallocResults(Len(inData)) :
          /\ ~TooLarge(Len(inData))
          /\ mRawPacketData' = inData
          /\ codec' =
                IF malloc = "null"
                THEN <<[call |-> "HandlePacket", idRead |-> FALSE,
                        ourID |-> 0, qrTested |-> FALSE, question |-> FALSE]>>
                ELSE LET packet == AsPacket(inData, heap) IN
                     <<[call |-> "HandlePacket", idRead |-> TRUE,
                        ourID |-> GetRawPacketID(packet),
                        qrTested |-> TRUE,
                        question |-> IF Len(inData) >= HeaderSize
                                     THEN IsQuestion(packet)
                                     ELSE left]>>
    /\ codecPC' = "done"
    /\ UNCHANGED notPacketVars

NextPacket ==
    \/ SetRawData
    \/ PacketDecode
    \/ PacketEncodeAddrStr
    \/ PacketSetRawPacketID
    \/ PacketGetRawPacketID
    \/ OutboxReadID

SpecPacket == InitOutbox /\ [][NextPacket]_vars

(***************************************************************************)
(* Properties of the pipeline (Spec)                                       *)
(***************************************************************************)
\* The Outbox thread has just sent a reply to a client
Delivered == lastOutbox # <<>> /\ lastOutbox[1].reply # <<>>

\* The Outbox thread has just matched a datagram with a Request
Matched == lastOutbox # <<>> /\ lastOutbox[1].req # <<>>

\* C1: whenever the Outbox thread delivers a reply, the Request it matched
\* by ID is the Request whose forwarded datagram that reply answers.
C1_NoConfusion ==
    Delivered => lastOutbox[1].m.answers = lastOutbox[1].req[1].uid

\* C2: the ID in a delivered datagram is the ID of the query that the
\* matched Request's client sent, and the datagram goes to that client.
C2_ClientIdRestored ==
    Delivered =>
        LET e == lastOutbox[1] IN
        /\ GetRawPacketID(e.reply[1].pkt) = GetRawPacketID(e.req[1].query)
        /\ e.reply[1].to = e.req[1].sender

\* C2 witness: a reply was delivered whose ID on the forward socket (ours)
\* differs from the ID the client receives.
C2_Witness ==
    /\ Delivered
    /\ GetRawPacketID(lastOutbox[1].m.pkt)
         # GetRawPacketID(lastOutbox[1].reply[1].pkt)

\* Bytes 2..N and the length of two datagrams agree
SameBody(p, q) ==
    /\ p.len = q.len
    /\ p.body = q.body
    /\ p.resp = q.resp
    /\ p.wf = q.wf

\* C3: apart from the ID, every datagram sent to a client is a datagram
\* received from the forward DNS server, and every datagram sent to the
\* forward DNS server is the client's query.
C3_Transparent ==
    /\ Delivered =>
          /\ SameBody(lastOutbox[1].reply[1].pkt, lastOutbox[1].m.pkt)
          /\ lastOutbox[1].m.src = FwdSocketAddr
    /\ \A f \in fwdSent : SameBody(f.pkt, f.query)

\* C4: a datagram from any source other than the configured forward DNS
\* server (address and port) is never delivered to a client.
C4_NoSpoofDelivered ==
    lastOutbox # <<>> =>
        (lastOutbox[1].m.src # FwdSocketAddr =>
            /\ lastOutbox[1].reply = <<>>
            /\ lastOutbox[1].req = <<>>)

\* C4 witness: a response from another source was handled whose ID is that
\* of a Request pending in the Outbox.
C4_Witness ==
    /\ lastOutbox # <<>>
    /\ lastOutbox[1].m.src # FwdSocketAddr
    /\ lastOutbox[1].m.pkt.resp
    /\ Occupied(mOutboxArray, GetRawPacketID(lastOutbox[1].m.pkt))

\* C5: when the Outbox thread finds elapsed >= SERVER_TIMEOUT_MS for the
\* Request it matched, it sends nothing, the Request is gone from the
\* Outbox, mStatsTimeOuts grows by one and mStatsServed stays.
C5_PassiveTimeout ==
    [][\A m \in FwdDatagrams :
         LET ourID == GetRawPacketID(m.pkt) IN
         (/\ OutboxHandlePacket(m)
          /\ ~TooLarge(m.pkt.len)
          /\ m.pkt.resp
          /\ Occupied(mOutboxArray, ourID)
          /\ now - mOutboxArray[ourID].mForwardedTime >= SERVER_TIMEOUT_MS)
         => /\ lastOutbox'[1].reply = <<>>
            /\ lastOutbox'[1].outcome = "timeout"
            /\ ~Occupied(mOutboxArray', ourID)
            /\ mStatsTimeOuts' = mStatsTimeOuts + 1
            /\ mStatsServed' = mStatsServed]_vars

\* C5 witness: a reply arrived exactly SERVER_TIMEOUT_MS after the Request
\* was forwarded and was dropped as a timeout.
C5_Witness ==
    /\ Matched
    /\ lastOutbox[1].outcome = "timeout"
    /\ lastOutbox[1].elapsedMS = SERVER_TIMEOUT_MS

\* The scheduling allowance of C6: less than one step of the clock
SchedulingEpsilon == ClockStep - 1

\* C6 as stated: no reply is delivered more than SERVER_TIMEOUT_MS (plus
\* epsilon) after the Inbox thread accepted the query.
C6_Original ==
    Delivered =>
        lastOutbox[1].reply[1].at - lastOutbox[1].req[1].acceptedAt
            <= SERVER_TIMEOUT_MS + SchedulingEpsilon

\* C6 amended: no reply is delivered SERVER_TIMEOUT_MS or more after the
\* Request was put into the Outbox (mForwardedTime); the time the Request
\* waited in the inbox queue is not counted.
C6_FromForwardedTime ==
    Delivered =>
        lastOutbox[1].reply[1].at - lastOutbox[1].req[1].mForwardedTime
            < SERVER_TIMEOUT_MS

\* C6 witness: a reply was delivered for a Request that had waited in the
\* inbox queue before it was forwarded.
C6_Witness ==
    /\ Delivered
    /\ lastOutbox[1].req[1].acceptedAt < lastOutbox[1].req[1].mForwardedTime

\* C7: OutboxTimeout never removes a Request whose age is below
\* SERVER_TIMEOUT_MS.
C7_SweepOnlyExpired ==
    [][sleepUntil' # sleepUntil =>
         \A id \in DOMAIN mOutboxArray :
            (~Occupied(mOutboxArray', id) \/ mOutboxArray'[id] # mOutboxArray[id])
            => now - mOutboxArray[id].mForwardedTime >= SERVER_TIMEOUT_MS]_vars

\* C7 witness: OutboxTimeout removed a Request and also popped an ID whose
\* slot was empty (the ID was on the queue twice).
C7_Witness ==
    /\ lastSweep # <<>>
    /\ lastSweep[1].removed > 0
    /\ lastSweep[1].popped > lastSweep[1].removed

\* Nothing is queued and the Process thread is between two Requests
Quiescent == mInboxQueue = <<>> /\ processPC = "wait"

\* C8: at every quiescent point requests = served + timeouts + the number
\* of occupied Outbox slots.
C8_Accounting ==
    Quiescent =>
        mStatsRequests
            = mStatsServed + mStatsTimeOuts + Cardinality(DOMAIN mOutboxArray)

(***************************************************************************)
(* Properties of the ID generator (SpecGen)                                *)
(***************************************************************************)
\* C9: GenerateUniqueID never returns 0; every ID it returns, to whichever
\* caller and on whichever side of the wrap, lies in 1..65535.
C9_IdInRange ==
    /\ \A p \in Callers :
          genPC[p] = "unlock" => genIdOut[p] \in 1..USHRT_MAX
    /\ genLast # 0 => genLast \in 1..USHRT_MAX

\* C9 witness: a caller is about to return the largest ID the counter
\* reaches, the last one before the wrap.
C9_Witness ==
    \E p \in Callers : genPC[p] = "unlock" /\ genIdOut[p] = USHRT_MAX - 1

\* C10 as stated: successive calls return 1, 2, ..., 65535 and the call after
\* the one that returned 65535 returns 1.
C10_Original ==
    [][genLast' # genLast =>
         genLast' = IF genLast = USHRT_MAX THEN 1 ELSE genLast + 1]_vars

\* C10 amended: successive calls return 1, 2, ..., 65534 in that order and
\* the call after the one that returned 65534 returns 1; 65535 is never
\* returned.
C10_Cycle ==
    [][genLast' # genLast =>
         /\ genLast' = IF genLast = USHRT_MAX - 1 THEN 1 ELSE genLast + 1
         /\ genLast' # USHRT_MAX]_vars

\* C10 witness: 65534 was the last ID returned and the next call, already
\* past the wrap, is about to return 1.
C10_Witness ==
    /\ genLast = USHRT_MAX - 1
    /\ \E p \in Callers : genPC[p] = "unlock" /\ genIdOut[p] = 1

(***************************************************************************)
(* Ownership of Requests (Spec)                                            *)
(***************************************************************************)
\* The parties that hold the Request uid: the inbox queue, the Process
\* thread (through reqPtr, which it is about to read), the Outbox
Owners(uid) ==
    {"InboxQueue" : i \in {j \in 1..Len(mInboxQueue) : mInboxQueue[j].uid = uid}}
    \cup {"Process" : r \in {q \in {reqPtr} : q # <<>> /\ q[1].uid = uid}}
    \cup {"Outbox" : id \in {k \in DOMAIN mOutboxArray :
                                 mOutboxArray[k].uid = uid}}

\* C12: every Request is held by at most one party, and the Process thread
\* holds no reference to a Request after it gave it to OutboxAdd, so the
\* Request a thread is about to access is never one that the Outbox thread,
\* OutboxTimeout or a later OutboxAdd may have taken or destroyed.
C12_ExclusiveOwnership ==
    /\ \A uid \in 1..MaxRequests : Cardinality(Owners(uid)) <= 1
    /\ reqPtr # <<>> => Owners(reqPtr[1].uid) = {"Process"}

(***************************************************************************)
(* Datagrams dropped before they are looked at (Spec)                      *)
(***************************************************************************)
\* C15: a client datagram longer than SERVER_MAX_PACKET_SIZE has no effect
\* at all, one of exactly that length is queued; nothing longer is ever
\* queued; the Outbox thread drops a longer datagram, whatever its source,
\* QR bit and ID, before it does anything else.
C15_OversizeDropped ==
    [][/\ \A d \in ClientDatagrams :
             InboxHandlePacket(d) =>
                IF d.pkt.len > SERVER_MAX_PACKET_SIZE
                THEN UNCHANGED <<mInboxQueue, mInboxQueueSemaphore,
                                 mGenIDCounter, mStatsRequests, mOutboxArray,
                                 mOutboxQueue, fwdSent, lastOutbox>>
                ELSE /\ Len(mInboxQueue') = Len(mInboxQueue) + 1
                     /\ mInboxQueue'[Len(mInboxQueue')].mPacket = d.pkt
                     /\ mInboxQueueSemaphore' = mInboxQueueSemaphore + 1
       /\ Len(mInboxQueue') > Len(mInboxQueue) =>
             mInboxQueue'[Len(mInboxQueue')].mPacket.len
                 <= SERVER_MAX_PACKET_SIZE
       /\ \A m \in FwdDatagrams \cup SpoofedDatagrams :
             (OutboxHandlePacket(m) /\ m.pkt.len > SERVER_MAX_PACKET_SIZE) =>
                /\ lastOutbox'[1].outcome = "too large"
                /\ lastOutbox'[1].reply = <<>>
                /\ UNCHANGED <<mOutboxArray, mOutboxQueue, mStatsServed,
                               mStatsTimeOuts>>]_vars

\* C15 witness: a datagram of exactly SERVER_MAX_PACKET_SIZE bytes is in the
\* inbox queue, and the Outbox thread has just dropped as too large a
\* datagram that did not even come from the forward DNS server.
C15_Witness ==
    /\ \E i \in 1..Len(mInboxQueue) :
          mInboxQueue[i].mPacket.len = SERVER_MAX_PACKET_SIZE
    /\ lastOutbox # <<>>
    /\ lastOutbox[1].outcome = "too large"
    /\ lastOutbox[1].m.src # FwdSocketAddr

\* A datagram on the forward socket that HandlePacket rejects before
\* "Lookup initial request"
RejectedBeforeLookup(m) ==
    \/ m.pkt.len > SERVER_MAX_PACKET_SIZE
    \/ m.src # FwdSocketAddr
    \/ ~m.pkt.resp

\* C16: a datagram rejected before the lookup leaves mOutboxArray and
\* mOutboxQueue as they are, whatever its ID; and a response of the forward
\* DNS server whose ID is that of a pending Request younger than
\* SERVER_TIMEOUT_MS is served to that Request, whatever was rejected before.
C16_RejectionLeavesOutbox ==
    [][\A m \in FwdDatagrams \cup SpoofedDatagrams :
          LET ourID == GetRawPacketID(m.pkt) IN
          OutboxHandlePacket(m) =>
             /\ RejectedBeforeLookup(m) =>
                   /\ UNCHANGED <<mOutboxArray, mOutboxQueue, mStatsServed,
                                  mStatsTimeOuts>>
                   /\ lastOutbox'[1].reply = <<>>
             /\ (/\ ~RejectedBeforeLookup(m)
                 /\ Occupied(mOutboxArray, ourID)
                 /\ now - mOutboxArray[ourID].mForwardedTime < SERVER_TIMEOUT_MS)
                => /\ lastOutbox'[1].outcome = "served"
                   /\ lastOutbox'[1].req = <<mOutboxArray[ourID]>>]_vars

\* C16 witness: the Outbox thread has just rejected a question that came
\* from the forward DNS server with the ID of a pending Request, and the
\* Request is still pending.
C16_Witness ==
    /\ lastOutbox # <<>>
    /\ lastOutbox[1].outcome = "question"
    /\ lastOutbox[1].m.src = FwdSocketAddr
    /\ Occupied(mOutboxArray, GetRawPacketID(lastOutbox[1].m.pkt))

\* The Process thread is about to pop a datagram that does not decode or
\* has the QR bit set
PopsUnusable ==
    /\ processPC = "pop"
    /\ processPC' # "pop"
    /\ mInboxQueue # <<>>
    /\ ~Head(mInboxQueue).mPacket.wf \/ Head(mInboxQueue).mPacket.resp

\* C25: a popped datagram that fails to decode or is a response is dropped:
\* mStatsRequests and mGenIDCounter keep their values, mOutboxArray and
\* mOutboxQueue are unchanged, nothing is sent on either socket, and the
\* thread waits for the next Request.
C25_UnusableDropped ==
    [][PopsUnusable =>
          /\ mInboxQueue' = Tail(mInboxQueue)
          /\ mStatsRequests' = mStatsRequests
          /\ mGenIDCounter' = mGenIDCounter
          /\ mOutboxArray' = mOutboxArray
          /\ mOutboxQueue' = mOutboxQueue
          /\ fwdSent' = fwdSent
          /\ lastOutbox' = lastOutbox
          /\ reqPtr' = <<>>
          /\ processPC' = "wait"]_vars

\* Both Requests accepted were popped and none of them reached the Outbox
C25_Witness ==
    /\ nextUid = MaxRequests + 1
    /\ mInboxQueue = <<>>
    /\ processPC = "wait"
    /\ mOutboxQueue = <<>>
    /\ mGenIDCounter = 0
    /\ fwdSent = {}

\* The Process thread reaches its sendto with OutboxAdd done: the Request
\* is in its slot, stamped with the time, and its ID is last in the queue
InsertedOnArrival ==
    LET id == reqPtr'[1].mOurPacketID IN
    /\ Occupied(mOutboxArray', id)
    /\ mOutboxArray'[id] = reqPtr'[1]
    /\ mOutboxArray'[id].mForwardedTime = now'
    /\ mOutboxQueue' # <<>>
    /\ mOutboxQueue'[Len(mOutboxQueue')] = id

Drained == mOutboxArray = <<>> /\ mOutboxQueue = <<>>

\* C11: a Request that OutboxAdd destroyed when it stored another Request in
\* its slot is counted as a timeout: once the Outbox has drained, every
\* Request that was inserted, the destroyed ones included, has been counted
\* once, as served or as timed out.
C11_EvictionCounted ==
    (Drained /\ evicted # {}) =>
        /\ mStatsTimeOuts >= Cardinality(evicted)
        /\ mStatsRequests = mStatsServed + mStatsTimeOuts

\* C18: every ID that is stored in mOutboxArray, and every ID that a
\* datagram makes the Outbox thread look up, has a slot in mOutboxArray.
C18_SlotForEveryID ==
    /\ \A id \in DOMAIN mOutboxArray : id \in Slots(OutboxIdLimit)
    /\ \A i \in 1..Len(mOutboxQueue) : mOutboxQueue[i] \in Slots(OutboxIdLimit)
    /\ lastTake # <<>> => lastTake[1].id \in Slots(OutboxIdLimit)

\* C19: for the same insertions and responses at the same times, the server
\* whose OutboxTimeout runs and the server whose OutboxTimeout never runs
\* send the same datagram to the same client, or both send none; and neither
\* sends a reply for a Request forwarded SERVER_TIMEOUT_MS or more before.
C19_SweeperIndependent ==
    lastTake # <<>> =>
        LET e == lastTake[1] IN
        /\ e.reply = e.unsweptReply
        /\ e.reply # <<>> =>
              e.reply[1].at - e.req[1].mForwardedTime < SERVER_TIMEOUT_MS
        /\ e.unsweptReply # <<>> =>
              e.unsweptReply[1].at - e.unsweptReq[1].mForwardedTime
                  < SERVER_TIMEOUT_MS

\* C19 witness: a response came for a Request that OutboxTimeout had
\* removed; the server that never runs OutboxTimeout found the Request and
\* dropped the response as timed out.
C19_Witness ==
    /\ lastTake # <<>>
    /\ lastTake[1].outcome = "no request"
    /\ lastTake[1].unsweptOutcome = "timeout"

\* C20: along mOutboxQueue, front to back, the Requests in the slots of the
\* queued IDs have non-decreasing mForwardedTime.
C20_FifoMonotonic ==
    \A i, j \in 1..Len(mOutboxQueue) :
        (/\ i < j
         /\ Occupied(mOutboxArray, mOutboxQueue[i])
         /\ Occupied(mOutboxArray, mOutboxQueue[j]))
        => mOutboxArray[mOutboxQueue[i]].mForwardedTime
              <= mOutboxArray[mOutboxQueue[j]].mForwardedTime

(***************************************************************************)
(* Properties of the pipeline without replies (SpecSilent)                 *)
(***************************************************************************)
Uids == 1..MaxRequests

InOutbox(uid) == \E id \in DOMAIN mOutboxArray : mOutboxArray[id].uid = uid

\* The last run of OutboxTimeout removed the Request and counted it
SweptAndCounted(uid) ==
    /\ lastSweep # <<>>
    /\ uid \in lastSweep[1].uids
    /\ ~InOutbox(uid)

LeavingOutbox == {uid \in Uids : InOutbox(uid) /\ ~InOutbox(uid)'}

\* C13: a Request put into the Outbox and never answered is eventually
\* removed by OutboxTimeout, with its ID popped from the queue, and
\* mStatsTimeOuts goes up by exactly one for every Request that leaves the
\* Outbox; in the end mOutboxArray and mOutboxQueue are empty.
C13_ActiveTimeout ==
    /\ \A uid \in Uids : InOutbox(uid) ~> SweptAndCounted(uid)
    /\ [][mStatsTimeOuts' = mStatsTimeOuts + Cardinality(LeavingOutbox)]_vars
    /\ <>[](mOutboxArray = <<>> /\ mOutboxQueue = <<>>)

\* The Process thread is through with the Request and nothing of it went
\* out on the forward socket
NeverSent(uid) ==
    /\ uid < nextUid
    /\ \A i \in DOMAIN mInboxQueue : mInboxQueue[i].uid # uid
    /\ reqPtr = <<>> \/ reqPtr[1].uid # uid
    /\ \A f \in fwdSent : f.uid # uid

SendFailed(uid) == InOutbox(uid) /\ NeverSent(uid)

\* C14: a failed sendto on the forward socket changes nothing in the Outbox
\* and ends HandleRequest, the datagram is not sent later, and the Request
\* is eventually removed and counted by OutboxTimeout.
C14_FailedSend ==
    /\ [][(processPC = "send" /\ processPC' = "wait" /\ fwdSent' = fwdSent)
            => /\ mOutboxArray' = mOutboxArray
               /\ mOutboxQueue' = mOutboxQueue
               /\ mStatsTimeOuts' = mStatsTimeOuts
               /\ reqPtr' = <<>>]_vars
    /\ [][\A uid \in Uids : NeverSent(uid) => NeverSent(uid)']_vars
    /\ \A uid \in Uids : SendFailed(uid) ~> SweptAndCounted(uid)

(***************************************************************************)
(* Properties of the shutdown (SpecShutdown)                               *)
(***************************************************************************)
Finished ==
    /\ mShuttingDown
    /\ \A w \in Workers : Terminated(w)
    /\ Len(statsPrinted) = 1

\* C17 as stated: after a signal delivered while RunServer waits,
\* mShuttingDown becomes true, the four threads terminate and the
\* statistics are printed, once.
C17_AsStated ==
    /\ deliveredWaiting ~> Finished
    /\ [](Len(statsPrinted) <= 1)

\* C17: after a signal that HandleSignal handled while RunServer waited,
\* mShuttingDown becomes true, the four threads terminate, blocked or not,
\* and the statistics are printed, never more than once, unless a further
\* signal ends the process before.
C17_GracefulShutdown ==
    /\ handledWaiting ~> (Finished \/ mainPC = "killed")
    /\ [](mainPC = "killed" => signals >= 2)
    /\ [](Len(statsPrinted) <= 1)
    /\ [](Len(statsPrinted) = 1 => \A w \in Workers : Terminated(w))

C17_Witness ==
    /\ handledWaiting
    /\ signals = 1
    /\ Finished
    /\ mainPC = "done"
    /\ \A w \in Workers : worker[w] = "cancelled"

\* C21: I1, every ID in mOutboxQueue refers to a slot of mOutboxArray that is
\* empty or holds a Request whose mOurPacketID is that ID.
C21_QueueRefersToOwnRequest ==
    \A i \in DOMAIN mOutboxQueue :
        Occupied(mOutboxArray, mOutboxQueue[i])
            => mOutboxArray[mOutboxQueue[i]].mOurPacketID = mOutboxQueue[i]

\* IDs 1 and 2 are queued, the Request of 1 was taken, that of 2 is there
C21_Witness ==
    /\ \E i \in DOMAIN mOutboxQueue : ~Occupied(mOutboxArray, mOutboxQueue[i])
    /\ \E i \in DOMAIN mOutboxQueue : Occupied(mOutboxArray, mOutboxQueue[i])
    /\ lastTake # <<>>
    /\ lastTake[1].outcome = "served"

\* The IDs GenerateUniqueID hands out before it repeats one: 1..max-1
CycleLength(max) == max - 1

\* C22: I3, when OutboxAdd overwrites an occupied slot, the Request it
\* destroys was given its ID a full cycle of GenerateUniqueID earlier: the
\* allocator has handed out every other ID since.  (Every Request of
\* SpecOutbox takes one ID, in the order of nextUid.)
C22_EvictionOnlyAfterWrap ==
    [][\A uid \in evicted' \ evicted :
          /\ nextUid - uid = CycleLength(OutboxIdLimit)
          /\ {GenerateUniqueID(c, OutboxIdLimit) : c \in Slots(OutboxIdLimit)}
                = 1..CycleLength(OutboxIdLimit)]_vars

\* A Request was overwritten and the newest one is in its slot
C22_Witness ==
    /\ evicted # {}
    /\ \E id \in DOMAIN mOutboxArray :
          mOutboxArray[id].uid = nextUid - 1
          /\ mOutboxArray[id].uid - CycleLength(OutboxIdLimit) \in evicted

\* What OutboxRemove(id) has to do in a step that looks up id
TakeFrame(id) ==
    /\ mOutboxQueue' = mOutboxQueue
    /\ IF Occupied(mOutboxArray, id)
       THEN /\ lastTake'[1].req = <<mOutboxArray[id]>>
            /\ DOMAIN mOutboxArray' = DOMAIN mOutboxArray \ {id}
       ELSE /\ lastTake'[1].req = <<>>
            /\ lastTake'[1].outcome = "no request"
            /\ DOMAIN mOutboxArray' = DOMAIN mOutboxArray
    /\ \A other \in DOMAIN mOutboxArray' : mOutboxArray'[other] = mOutboxArray[other]

\* C23: OutboxRemove(id), for any 16-bit id, takes the Request out of its
\* slot and returns it, or returns nothing when the slot is empty; the queue
\* and the other slots are unchanged; the slot is empty afterwards and only
\* OutboxAdd fills it again.
C23_TakeFrame ==
    /\ [][lastTake' # lastTake => TakeFrame(lastTake'[1].id)]_vars
    /\ [][\A id \in IdValues(OutboxIdLimit) :
            (Occupied(mOutboxArray', id) /\ ~Occupied(mOutboxArray, id))
                => nextUid' = nextUid + 1]_vars

\* C24: when OutboxTimeout returns, no Request that was forwarded
\* SERVER_TIMEOUT_MS or more ago is left in mOutboxArray.
C24_SweepComplete ==
    [][sleepUntil' # sleepUntil =>
          \A id \in DOMAIN mOutboxArray' :
              ElapsedMS(mOutboxArray'[id].mForwardedTime, now')
                  < SERVER_TIMEOUT_MS]_vars

\* Requests that a step takes out of mOutboxArray by OutboxRemove or
\* OutboxTimeout (not those an OutboxAdd overwrites)
Inserted == 1..MaxInserts

LeavingByTakeOrSweep ==
    {uid \in Inserted : InOutbox(uid) /\ ~InOutbox(uid)'} \ (evicted' \ evicted)

ExpiredAt(uid, rightNow) ==
    \E id \in DOMAIN mOutboxArray :
        /\ mOutboxArray[id].uid = uid
        /\ ElapsedMS(mOutboxArray[id].mForwardedTime, rightNow)
              >= SERVER_TIMEOUT_MS

\* C26: every Request that the Outbox thread or OutboxTimeout takes out of
\* the Outbox is counted once, in mStatsServed or in mStatsTimeOuts; a
\* Request taken SERVER_TIMEOUT_MS or more after it was forwarded counts as a
\* timeout and not as served, whichever thread takes it.
C26_CountedOnce ==
    [][LeavingByTakeOrSweep # {} =>
          /\ (mStatsServed' - mStatsServed) + (mStatsTimeOuts' - mStatsTimeOuts)
                = Cardinality(LeavingByTakeOrSweep)
          /\ mStatsTimeOuts' - mStatsTimeOuts
                = Cardinality({uid \in LeavingByTakeOrSweep :
                                  ExpiredAt(uid, now)})]_vars

\* One Request was served, one timed out in the Outbox thread, one was
\* removed by OutboxTimeout
C26_Witness ==
    /\ mStatsServed = 1
    /\ mStatsTimeOuts = 2
    /\ lastTake # <<>>
    /\ lastTake[1].slot
    /\ lastTake[1].outcome = "timeout"
    /\ lastSweep # <<>>
    /\ lastSweep[1].removed = 1
    /\ mOutboxArray = <<>>

\* C27: a response of the forward DNS server whose ID is that of no
\* occupied slot, whatever 16-bit value it is, is dropped: nothing is sent to
\* a client, mStatsServed, mStatsTimeOuts, mOutboxArray and mOutboxQueue are
\* unchanged.
C27_UnmatchedReplyDropped ==
    [][(lastTake' # lastTake /\ ~Occupied(mOutboxArray, lastTake'[1].id)) =>
          /\ lastTake'[1].reply = <<>>
          /\ lastTake'[1].outcome = "no request"
          /\ mStatsServed' = mStatsServed
          /\ mStatsTimeOuts' = mStatsTimeOuts
          /\ mOutboxArray' = mOutboxArray
          /\ mOutboxQueue' = mOutboxQueue]_vars

(***************************************************************************)
(* Properties of the InboxQueue (SpecInbox)                                *)
(***************************************************************************)
PassedWait == Cardinality({t \in Threads : procPC[t] = "pop"})

PendingPosts == Cardinality({t \in Threads : inboxPC[t] = "post"})

\* C29: the semaphore count plus the Process threads between sem_wait and
\* the pop never exceeds the length of mInboxQueue, and falls short of it
\* only by the pushes whose sem_post is still to come; a pop after a wait
\* finds a Request; every push is followed by its sem_post.
C29_SemaphoreMatchesQueue ==
    /\ [](mInboxQueueSemaphore + PassedWait <= Len(mInboxQueue))
    /\ [](Len(mInboxQueue) = mInboxQueueSemaphore + PassedWait + PendingPosts)
    /\ [](~poppedEmpty)
    /\ \A t \in Threads : (inboxPC[t] = "post") ~> (inboxPC[t] = "recv")

\* Two Requests are queued, one Process thread has passed the wait for the
\* first, the post for the second is still to come
C29_Witness ==
    /\ Len(mInboxQueue) = 2
    /\ PassedWait = 1
    /\ PendingPosts = 1
    /\ mInboxQueueSemaphore = 0

\* C30: the Requests popped are the Requests pushed, in the order pushed,
\* each once, whichever Process thread pops; every Request pushed is popped.
C30_PoppedOnceInOrder ==
    /\ [](\A i \in DOMAIN popped : popped[i].uid = i)
    /\ [](Len(popped) + Len(mInboxQueue) = nextUid - 1)
    /\ \A uid \in 1..MaxPushes :
          (nextUid > uid) ~> (Len(popped) >= uid)

\* Every Request was popped and both Process threads popped some
C30_Witness ==
    /\ Len(popped) = MaxPushes
    /\ \A t \in Threads : \E i \in DOMAIN popped : popped[i].by = t

\* C32: every occupied slot of mOutboxArray has its ID in mOutboxQueue at
\* least once, so OutboxTimeout comes to every Request in the table.
C32_OccupiedSlotQueued ==
    \A id \in DOMAIN mOutboxArray :
        \E i \in DOMAIN mOutboxQueue : mOutboxQueue[i] = id

\* OutboxTimeout has popped IDs and left a Request in a slot whose ID was
\* used before: the ID is queued, and the slot is occupied
C32_Witness ==
    /\ lastSweep # <<>>
    /\ lastSweep[1].popped > 0
    /\ \E id \in DOMAIN mOutboxArray : mOutboxArray[id].uid = MaxInserts
    /\ Len(mOutboxQueue) > 0

\* RunServer is past its wait: mShuttingDown is set and the threads are
\* being stopped, or have been
ShutdownStarted == mainPC \in {"cancel", "join", "stats", "done"}

\* C37: no termination signal is lost.  A signal that HandleSignal handles,
\* at any moment after RunServer installed it, before the wait on
\* sShuttingDownCV or during it, leads to mShuttingDown being set and to the
\* shutdown sequence (unless a further signal ends the process first), and
\* the shutdown sequence starts only after a signal.
C37_NoSignalLost ==
    /\ (handlers = "SIG_DFL") ~> ((mShuttingDown /\ ShutdownStarted)
                                    \/ mainPC = "killed")
    /\ [][(ShutdownStarted' /\ ~ShutdownStarted) => signals >= 1]_vars

\* C38: a thread is cancelled only in its blocking call (recvfrom, sem_wait,
\* sleep_for; "loop" is the entry into that call), never in its handler:
\* not in the middle of a datagram or Request, and not inside OutboxTimeout,
\* which holds mOutboxMutex from its first statement to its last.
C38_StoppedOnlyBlocked ==
    [][\A w \in Workers :
          (worker'[w] = "cancelled" /\ worker[w] # "cancelled")
             => worker[w] \in {"loop", "blocked"}]_vars

(***************************************************************************)
(* Properties of the Outbox threads (SpecEgress)                           *)
(***************************************************************************)
\* The Outbox threads that hold the Request uid
HeldBy(uid) ==
    {t \in Threads : outboxReq[t] # <<>> /\ outboxReq[t][1].uid = uid}

\* C31: at most one datagram is sent to the client of a forwarded Request,
\* however often and to however many Outbox threads the forward DNS server's
\* response comes: a Request is handed to one thread only, it is out of the
\* table then, and it is not handed out again once its datagram was sent.
C31_AtMostOneReply ==
    \A uid \in Inserted :
        /\ sentToClient[uid] <= 1
        /\ Cardinality(HeldBy(uid)) <= 1
        /\ HeldBy(uid) # {} => ~InOutbox(uid) /\ sentToClient[uid] = 0
        /\ sentToClient[uid] = 1 => ~InOutbox(uid)

\* Both Outbox threads are about to send, each for a Request of its own, and
\* the client of a third Request has its datagram
C31_Witness ==
    /\ \A t \in Threads : outboxPC[t] = "send"
    /\ \E uid \in Inserted : sentToClient[uid] = 1
    /\ \A t \in Threads : outboxReq[t][1].uid \in Inserted

\* An Outbox thread comes back from the sendto for a Request of the table,
\* which it counted in mStatsServed before the call
ReturnsFromSendto(t) ==
    /\ outboxPC[t] = "send"
    /\ outboxPC'[t] = "recv"
    /\ outboxReq[t][1].uid \in Inserted

\* C36: mStatsServed counts the replies sent to clients: the increment is
\* made once for each datagram an Outbox thread sends on the server socket,
\* and a reply that was counted has gone out when the thread is through with
\* it, so none is counted whose sendto did not take place or failed.
C36_ServedCountsSent ==
    [][/\ \A t \in Threads :
            ReturnsFromSendto(t) =>
                sentToClient'[outboxReq[t][1].uid]
                    = sentToClient[outboxReq[t][1].uid] + 1
       /\ mStatsServed' \in {mStatsServed, mStatsServed + 1}
       /\ \A uid \in Inserted :
            sentToClient'[uid] # sentToClient[uid] =>
                \E t \in Threads : ReturnsFromSendto(t)]_vars

\* C39: no datagram is fatal to a stage.  Whatever an Outbox thread received
\* and dropped (a response that matches no Request, one that came after
\* SERVER_TIMEOUT_MS, one whose sendto failed), the thread is in its loop
\* afterwards, at recvfrom or handling a later datagram, and the process
\* that forwards the next query and delivers its reply is there.
C39_DropNotFatal ==
    \A t \in Threads : outboxPC[t] \in {"recv", "elapsed", "send"}

(***************************************************************************)
(* Properties of the packet codec (SpecPacket)                             *)
(***************************************************************************)
\* The labels a question name of the explored datagrams can have, and how
\* many of them fit before a question
Labels == UNION {[1..n -> ByteValues] : n \in 1..2}

MaxLabels == (MaxNameBytes - QuestionSize - 1) \div 2

LabelSeqs == UNION {[1..k -> Labels] : k \in 0..MaxLabels}

\* QNAME: each label behind its length, then the zero label
RECURSIVE WireName(_)
WireName(labels) ==
    IF labels = <<>>
    THEN <<0>>
    ELSE <<Len(Head(labels))>> \o Head(labels) \o WireName(Tail(labels))

\* The labels in order, joined by '.', no trailing dot
RECURSIVE JoinLabels(_)
JoinLabels(labels) ==
    IF labels = <<>> THEN <<>>
    ELSE IF Len(labels) = 1 THEN labels[1]
    ELSE labels[1] \o <<Period>> \o JoinLabels(Tail(labels))

Names == {[wire |-> WireName(ls), qname |-> JoinLabels(ls)] : ls \in LabelSeqs}

\* The names whose QNAME stands behind the header of the datagram, with at
\* least QTYPE and QCLASS behind it
NamesIn(data) ==
    {nm \in Names :
        /\ Len(data) >= HeaderSize + Len(nm.wire) + QuestionSize
        /\ SubSeq(data, HeaderSize + 1, HeaderSize + Len(nm.wire)) = nm.wire}

\* C33: Decode fails exactly when the datagram is shorter than the header,
\* or a label length exceeds the bytes that remain, or the name has no zero
\* label within the datagram, or fewer than 4 bytes follow the name; when it
\* succeeds the question name is the labels in order joined by '.'.
C33_DecodeExact ==
    (codec # <<>> /\ codec[1].call = "Decode") =>
        /\ codec[1].rc \in {0, -1}
        /\ codec[1].rc = 0 <=> NamesIn(mRawPacketData) # {}
        /\ codec[1].rc = 0 =>
              \A nm \in NamesIn(mRawPacketData) :
                  codec[1].mQuestionName = nm.qname

\* A name of two labels was decoded
C33_Witness ==
    /\ codec # <<>>
    /\ codec[1].call = "Decode"
    /\ codec[1].rc = 0
    /\ codec[1].mQuestionName = <<1, Period, 2>>

\* The last call was EncodeAddrStr with room for the whole name
Encodes ==
    /\ codec # <<>>
    /\ codec[1].call = "EncodeAddrStr"
    /\ codec[1].room >= Len(WireName(codec[1].sections))

\* C34: EncodeAddrStr, given enough room, writes for each section of the name
\* its length and its bytes, then a zero byte, and reports the number of
\* bytes written; DecodeAddrStr on the bytes written gives the name back when
\* no section is empty.
C34_EncodeAddrStr ==
    Encodes =>
        LET written == SubSeq(codec[1].buffer, 1, codec[1].ioDataLen) IN
        /\ codec[1].rc = 0
        /\ written = WireName(codec[1].sections)
        /\ (\A i \in DOMAIN codec[1].sections : codec[1].sections[i] # <<>>)
              => /\ DecodeAddrStr(written).rc = 0
                 /\ DecodeAddrStr(written).outString = codec[1].inString

\* The ID of a datagram of at least 2 bytes was written, or written and read
WroteID ==
    /\ codec # <<>>
    /\ codec[1].call \in {"SetRawPacketID", "GetRawPacketID"}
    /\ Len(codec[1].before) >= 2

\* C35: SetRawPacketID and GetRawPacketID treat bytes 0-1 of the datagram as
\* a big-endian 16-bit value: what was written is read back, byte 0 is the
\* ID div 256 and byte 1 the ID mod 256, and the length and the bytes from
\* offset 2 on are as before.
C35_BigEndianID ==
    WroteID =>
        /\ mRawPacketData[1] = codec[1].inID \div 256
        /\ mRawPacketData[2] = codec[1].inID % 256
        /\ Len(mRawPacketData) = Len(codec[1].before)
        /\ \A i \in 3..Len(mRawPacketData) :
              mRawPacketData[i] = codec[1].before[i]
        /\ codec[1].call = "GetRawPacketID" => codec[1].outID = codec[1].inID

\* 0xABCD was written over the ID 1 of a whole datagram and read back
C35_Witness ==
    /\ WroteID
    /\ codec[1].call = "GetRawPacketID"
    /\ codec[1].inID = 43981
    /\ codec[1].outID = 43981
    /\ codec[1].before[2] = 1
    /\ Len(mRawPacketData) > HeaderSize

\* C40: the Outbox thread reads the ID only from a datagram that has its 2
\* bytes, and tests the QR bit only of a header decoded from at least
\* HeaderSize received bytes.
C40_ReadsWhatWasReceived ==
    (codec # <<>> /\ codec[1].call = "HandlePacket") =>
        /\ codec[1].idRead => Len(mRawPacketData) >= 2
        /\ codec[1].qrTested => Len(mRawPacketData) >= HeaderSize

=============================================================================
